---- MODULE Spec2Model ----
(***************************************************************************)
(* Model of the distributed job-coordination core of street-audio:         *)
(* ClusterManagementController (controllers/advanced) together with the    *)
(* job / work-unit model it drives and the cluster configuration it reads. *)
(*                                                                         *)
(* One controller instance (the local node, Self) is modelled.  Remote     *)
(* peers appear as registry entries, as destinations of messages and as    *)
(* the senders of inbound messages.  Time is counted in milliseconds and   *)
(* advances in steps of one heartbeat interval.                            *)
(***************************************************************************)
EXTENDS Integers, Sequences, FiniteSets, TLC

\* ------------------------------------------------------------------ bounds
MaxTime == 4000        \* the clock stops advancing here
TickStep == 4000       \* time that passes between two observations of the clock
MaxSubmits == 2        \* calls of distributeJob
MaxAssigns == 1        \* work:assign messages received
MaxDuplicates == 1     \* work:result messages delivered a second time
UnitsPerJob == 2       \* work units produced by createWorkUnits
MaxAttempts == 4       \* recovery is not explored beyond this many attempts
MaxHeartbeats == 2     \* the heartbeat counter of a registry entry is not explored beyond this
MaxActiveJobs == 2     \* largest activeJobs count a candidate node reports

\* ------------------------------------------------- configuration (part_015)
HeartbeatInterval == 1000
NodeRemovalThreshold == 3
MaxRetries == 3

\* ------------------------------------------------------------- identities
Null == "null"
Self == "self"
NodeIds == {"n1", "n2"}
JobIds == {"j1"}
UnitIds == 1..UnitsPerJob
Payloads == NodeIds \cup {Self}
Roles == {"master", "worker"}
RecoveryStrategies == {"retry", "reassign", "recreate"}
LoadBalancing == {"round-robin", "least-loaded", "weighted", "auto"}

JobStatuses == {"pending", "running", "completed", "failed", "cancelled"}
JobTerminal == {"completed", "failed", "cancelled"}
UnitStatuses == {"pending", "assigned", "processing", "completed", "failed"}
UnitTerminal == {"completed", "failed"}
UnitInFlight == {"assigned", "processing"}

\* ----------------------------------------------------------------- helpers
Put(f, k, v) == [x \in (DOMAIN f) \cup {k} |-> IF x = k THEN v ELSE f[x]]
Remove(f, k) == [x \in (DOMAIN f) \ {k} |-> f[x]]
Range(s) == {s[i] : i \in DOMAIN s}

\* a value a message or an object leaves out (undefined)
NoValue == -1

\* Array.prototype.filter on a sequence
RECURSIVE SeqFilter(_, _)
SeqFilter(s, keep) ==
  IF s = <<>> THEN <<>>
  ELSE IF Head(s) \in keep THEN <<Head(s)>> \o SeqFilter(Tail(s), keep)
       ELSE SeqFilter(Tail(s), keep)

\* the value a handler returns, kept with the events the handler emitted
Returned(handler, v) == [type |-> "return:" \o handler, id |-> v]

\* the timers of a controller before initialize(): no handle, none running
NoHandle == 0

NoIntervals == [heartbeatInterval |-> NoHandle, monitoringInterval |-> NoHandle,
                running |-> {}, created |-> 0]

\* WorkerThreadPool threads spawned by the constructor (minThreads = 2)
MinThreads == 2
ThreadIds == 1..MinThreads
MaxTasks == 5
TaskIds == 1..MaxTasks
NoTask == 0

\* new WorkerThreadPool({}): every spawned worker is idle, in spawn order
NewPool == [queue |-> <<>>, idle |-> [i \in ThreadIds |-> i],
            currentTask |-> [w \in ThreadIds |-> NoTask],
            busy |-> {}, exited |-> {},
            promise |-> [t \in TaskIds |-> "none"]]

\* ============================================================ variables
VARIABLES
  cfg,          \* clusterConfig values read by the controller; role of this node
  now,          \* Date.now()
  nodes,        \* this.nodes : node id -> registry entry
  order,        \* insertion order of this.nodes (Map iteration order)
  objects,      \* the job models that exist, by job id
  jobs,         \* keys of this.jobs; this.jobs.get(j) is objects[j]
  metrics,      \* this.metrics
  rrCounter,    \* this._roundRobinCounter
  listeners,    \* job id -> number of 'jobCompleted' handlers registered
  timers,       \* job id -> number of pending removal timeouts
  runs,         \* invocations of _processJobLocally that have not returned
  sends,        \* work:assign sends whose promise is not settled
  sent,         \* work:assign contents delivered to a remote node
  cancels,      \* cancelJob calls awaiting their job:cancel sends
  submits,      \* calls of distributeJob so far
  assigns,      \* work:assign messages received so far
  dups,         \* work:result messages the transport has delivered twice
  tasks,        \* work units received by work:assign and being processed
  outbox,       \* work:result messages this node has sent
  emitted,      \* events emitted, and the value returned, by the last handler that ran
  model,        \* the DistributedProcessingModel instance of part_016
  intervals,    \* this.heartbeatInterval, this.monitoringInterval and the timers running
  pool          \* the WorkerThreadPool instance: queue, idle list, workers, promises

vars == <<cfg, now, nodes, order, objects, jobs, metrics, rrCounter, listeners, timers,
          runs, sends, sent, cancels, submits, assigns, dups, tasks, outbox, emitted,
          model, intervals, pool>>

ctrlVars == <<cfg, now, nodes, order, objects, jobs, metrics, rrCounter, listeners,
              timers, runs, sends, sent, cancels, submits, assigns, dups, tasks, outbox,
              emitted, intervals, pool>>

\* ============================================== job / work-unit model
\* The controller drives its jobs through workUnits, executionState, start,
\* cancel, complete, createWorkUnits, updateWorkUnit, assignWorkUnit and
\* getWorkUnitsByStatus.  These follow the data model and the lifecycle
\* rules of the design (sections 3 and 4.2): terminal job and unit statuses
\* are absorbing, a patch changes only the fields it names, and a job
\* becomes completed when its last unit does.

NewUnit(id) ==
  [id |-> id, status |-> "pending", assignedNode |-> Null, attempts |-> 0,
   blacklistedNodes |-> {}, requiredCapabilities |-> {}, result |-> Null,
   error |-> Null]

NewJob == [status |-> "pending", workUnits |-> <<>>, startTime |-> 0]

\* createWorkUnits: one pending unit per chunk of the subject; a no-op when
\* the units already exist
CreateWorkUnits(job) ==
  IF job.workUnits # <<>> THEN job
  ELSE [job EXCEPT !.workUnits = [i \in 1..UnitsPerJob |-> NewUnit(i)]]

\* start(): only valid from pending
JobStart(job, t) ==
  IF job.status = "pending"
  THEN [job EXCEPT !.status = "running", !.startTime = t]
  ELSE job

\* cancel(): valid from pending or running
JobCancel(job) ==
  IF job.status \in {"pending", "running"}
  THEN [job EXCEPT !.status = "cancelled"]
  ELSE job

\* complete(): running -> completed
JobComplete(job) ==
  IF job.status = "running" THEN [job EXCEPT !.status = "completed"] ELSE job

\* getWorkUnitsByStatus(status): ids of the matching units, in unit order
RECURSIVE UnitsByStatus(_, _)
UnitsByStatus(units, status) ==
  IF units = <<>> THEN <<>>
  ELSE IF Head(units).status = status
       THEN <<Head(units).id>> \o UnitsByStatus(Tail(units), status)
       ELSE UnitsByStatus(Tail(units), status)

GetWorkUnitsByStatus(job, status) == UnitsByStatus(job.workUnits, status)

UnitIndex(job, id) ==
  IF \E i \in DOMAIN job.workUnits : job.workUnits[i].id = id
  THEN CHOOSE i \in DOMAIN job.workUnits : job.workUnits[i].id = id
  ELSE 0

HasUnit(job, id) == UnitIndex(job, id) # 0
Unit(job, id) == job.workUnits[UnitIndex(job, id)]

\* a patch names the fields it changes
ApplyPatch(unit, patch) ==
  [f \in DOMAIN unit |-> IF f \in DOMAIN patch THEN patch[f] ELSE unit[f]]

\* a unit in a terminal status accepts no further transition
LegalTransition(unit, patch) == unit.status \notin UnitTerminal

\* lazy completion: the job completes when every unit has completed
EvaluateCompletion(job) ==
  IF /\ job.status = "running"
     /\ job.workUnits # <<>>
     /\ \A i \in DOMAIN job.workUnits : job.workUnits[i].status = "completed"
  THEN [job EXCEPT !.status = "completed"]
  ELSE job

\* updateWorkUnit(id, patch)
UpdateWorkUnit(job, id, patch) ==
  IF ~HasUnit(job, id) THEN job
  ELSE LET i == UnitIndex(job, id)
           u == job.workUnits[i]
       IN IF ~LegalTransition(u, patch) THEN job
          ELSE EvaluateCompletion(
                 [job EXCEPT !.workUnits[i] = ApplyPatch(u, patch)])

\* assignWorkUnit(id, nodeId)
AssignWorkUnit(job, id, nodeId) ==
  UpdateWorkUnit(job, id, [status |-> "assigned", assignedNode |-> nodeId])

\* the model emits 'jobCompleted' when the job enters completed
JobCompletedFired(old, new) == old.status # "completed" /\ new.status = "completed"

\* ======================================================= load balancing
\* node.role === 'worker' && node.status === 'active', in registry order
WorkerNodes(reg, ord) ==
  SeqFilter(ord, {n \in DOMAIN reg : reg[n].role = "worker" /\ reg[n].status = "active"})

\* round-robin with the increment of the counter left out
RoundRobinLoadBalancerNoIncrement(reg, cands, counter) ==
  IF cands = <<>> THEN [node |-> Null, counter |-> counter]
  ELSE LET c == counter % Len(cands)
       IN [node |-> cands[c + 1], counter |-> c]

\* _roundRobinLoadBalancer: the selected node and the counter it leaves
RoundRobinLoadBalancer(reg, cands, counter) ==
  IF cands = <<>> THEN [node |-> Null, counter |-> counter]
  ELSE LET c == counter % Len(cands)
       IN [node |-> cands[c + 1], counter |-> c + 1]

\* a.activeJobs || 0
ActiveJobsOrZero(entry) == IF entry.activeJobs = NoValue THEN 0 ELSE entry.activeJobs

\* Array.prototype.sort with (a, b) => aJobs - bJobs is stable: n goes behind
\* every element that does not count more jobs than n
RECURSIVE InsertByActiveJobs(_, _, _)
InsertByActiveJobs(reg, sorted, n) ==
  IF sorted = <<>> THEN <<n>>
  ELSE IF ActiveJobsOrZero(reg[Head(sorted)]) <= ActiveJobsOrZero(reg[n])
       THEN <<Head(sorted)>> \o InsertByActiveJobs(reg, Tail(sorted), n)
       ELSE <<n>> \o sorted

RECURSIVE SortByActiveJobs(_, _, _)
SortByActiveJobs(reg, todo, sorted) ==
  IF todo = <<>> THEN sorted
  ELSE SortByActiveJobs(reg, Tail(todo), InsertByActiveJobs(reg, sorted, Head(todo)))

\* the comparator with its operands exchanged: most loaded first
LeastLoadedBalancerDescending(reg, cands) ==
  IF cands = <<>> THEN Null
  ELSE LET sortedNodes == SortByActiveJobs(reg, cands, <<>>)
       IN sortedNodes[Len(sortedNodes)]

\* _leastLoadedBalancer: first entry of the candidates sorted by activeJobs
LeastLoadedBalancer(reg, cands) ==
  IF cands = <<>> THEN Null
  ELSE SortByActiveJobs(reg, cands, <<>>)[1]

\* the weighted strategy answering with the local node when it has no candidate
WeightedLoadBalancerSelfOnEmpty(reg, cands, draw) ==
  IF cands = <<>> THEN Self
  ELSE IF draw \in DOMAIN cands THEN cands[draw] ELSE cands[1]

\* _weightedLoadBalancer: every weight is at least 0.1, so the cumulative
\* draw can land on any candidate; draw is the position Math.random selects
WeightedLoadBalancer(reg, cands, draw) ==
  IF cands = <<>> THEN Null
  ELSE IF draw \in DOMAIN cands THEN cands[draw] ELSE cands[1]

\* the adaptive strategy with the blacklist filter left out
AdaptiveLoadBalancerNoBlacklist(reg, cands, unit, draw) ==
  IF cands = <<>> THEN Null
  ELSE LET capableNodes ==
             SeqFilter(cands, {n \in Range(cands) :
                                  unit.requiredCapabilities \subseteq reg[n].capabilities})
       IN IF unit.requiredCapabilities # {} /\ capableNodes # <<>>
          THEN WeightedLoadBalancer(reg, capableNodes, draw)
          ELSE WeightedLoadBalancer(reg, cands, draw)

\* _adaptiveLoadBalancer
AdaptiveLoadBalancer(reg, cands, unit, draw) ==
  IF cands = <<>> THEN Null
  ELSE LET availableNodes == SeqFilter(cands, Range(cands) \ unit.blacklistedNodes)
           capableNodes ==
             SeqFilter(availableNodes,
                       {n \in Range(availableNodes) :
                          unit.requiredCapabilities \subseteq reg[n].capabilities})
       IN IF availableNodes = <<>> THEN Null
          ELSE IF unit.requiredCapabilities # {} /\ capableNodes # <<>>
               THEN WeightedLoadBalancer(reg, capableNodes, draw)
               ELSE WeightedLoadBalancer(reg, availableNodes, draw)

\* this.loadBalancer as built by _createLoadBalancer
LoadBalancer(strategy, reg, cands, unit, counter, draw) ==
  CASE strategy = "round-robin" -> RoundRobinLoadBalancer(reg, cands, counter)
    [] strategy = "least-loaded" ->
         [node |-> LeastLoadedBalancer(reg, cands), counter |-> counter]
    [] strategy = "weighted" ->
         [node |-> WeightedLoadBalancer(reg, cands, draw), counter |-> counter]
    [] OTHER ->
         [node |-> AdaptiveLoadBalancer(reg, cands, unit, draw), counter |-> counter]

\* ================================================= completion tracking
\* one run of completionHandler (_trackJobCompletion): success rate is kept
\* in thousandths
CompletionHandler(m, job, endTime) ==
  LET completedUnits == Len(GetWorkUnitsByStatus(job, "completed"))
      totalUnits == Len(job.workUnits)
      jobSuccessRate == IF totalUnits > 0 THEN (1000 * completedUnits) \div totalUnits ELSE 0
  IN [m EXCEPT
        !.jobsProcessed = @ + 1,
        !.totalProcessingTime = @ + ((endTime - job.startTime) \div 1000),
        !.successRate = IF totalUnits > 0
                        THEN (@ * 7 + jobSuccessRate * 3) \div 10
                        ELSE @]

RECURSIVE RunHandlers(_, _, _, _)
RunHandlers(m, job, endTime, k) ==
  IF k = 0 THEN m ELSE RunHandlers(CompletionHandler(m, job, endTime), job, endTime, k - 1)

\* the effect of the job model emitting 'jobCompleted' between old and new:
\* every registered handler runs once, arms a removal timeout and removes itself
\* st bundles the parts of the controller a handler may change
AfterEmit(st, j, old, new, t) ==
  IF JobCompletedFired(old, new)
  THEN [st EXCEPT !.metrics = RunHandlers(st.metrics, new, t, st.listeners[j]),
                  !.timers[j] = @ + st.listeners[j],
                  !.listeners[j] = 0,
                  !.emitted = @ \cup {[type |-> "jobCompleted", id |-> j]}]
  ELSE st

\* _trackJobCompletion(job): registers the handlers
TrackJobCompletion(st, j) == [st EXCEPT !.listeners[j] = @ + 1]

\* job.<mutation>: store the changed model and deliver the events it emits
StoreJob(st, j, new, t) ==
  AfterEmit([st EXCEPT !.objects = Put(@, j, new)], j, st.objects[j], new, t)

\* ===================================================== local processing
\* _processJobLocally.processUnit up to its first await
StartUnit(st, j, id, t) ==
  StoreJob(st, j, UpdateWorkUnit(st.objects[j], id,
                    [status |-> "processing", assignedNode |-> Self]), t)

\* concurrentProcess: start queued units while fewer than maxConcurrent run
RECURSIVE FillRun(_, _, _)
FillRun(st, run, t) ==
  IF run.queue = <<>> \/ Cardinality(run.active) >= cfg.maxConcurrentJobs
  THEN [st |-> st, run |-> run]
  ELSE FillRun(StartUnit(st, run.job, Head(run.queue), t),
               [run EXCEPT !.queue = Tail(@), !.active = @ \cup {Head(run.queue)}],
               t)

\* _processJobLocally lines 1544-1558, and the caller's _trackJobCompletion
FinalizeRun(st, run, t) ==
  LET job == st.objects[run.job]
      allProcessed == \A i \in DOMAIN job.workUnits :
                         job.workUnits[i].status \in {"completed", "failed"}
      s1 == IF allProcessed
            THEN [StoreJob(st, run.job, JobComplete(job), t)
                    EXCEPT !.metrics.jobsProcessed = @ + 1]
            ELSE st
  IN IF run.track THEN TrackJobCompletion(s1, run.job) ELSE s1

\* _processJobLocally(job) up to the point where it first waits; a run
\* that started no unit finishes at once
ProcessJobLocally(st, j, track, t) ==
  LET run0 == [job |-> j, queue |-> GetWorkUnitsByStatus(st.objects[j], "pending"),
               active |-> {}, track |-> track]
      f == FillRun(st, run0, t)
  IN IF f.run.active = {}
     THEN FinalizeRun(f.st, f.run, t)
     ELSE [f.st EXCEPT !.runs = Append(@, f.run)]

\* ========================================================= distribution
\* _distributeWorkUnits lines 1593-1611: select a node for each unit
RECURSIVE AssignLoop(_, _, _, _, _, _, _)
AssignLoop(st, reg, j, units, workers, assignments, draw) ==
  IF units = <<>> THEN [st |-> st, assignments |-> assignments]
  ELSE LET id == Head(units)
           sel == LoadBalancer(cfg.loadBalancing, reg, workers,
                               Unit(st.objects[j], id), st.rrCounter, draw[id])
           s1 == [st EXCEPT !.rrCounter = sel.counter]
       IN IF sel.node = Null
          THEN AssignLoop(s1, reg, j, Tail(units), workers, assignments, draw)
          ELSE AssignLoop(
                 StoreJob(s1, j, AssignWorkUnit(s1.objects[j], id, sel.node), now),
                 reg, j, Tail(units), workers,
                 [assignments EXCEPT ![sel.node] = Append(@, id)], draw)

\* the distribution pass sending one message for every unit, not one for
\* every destination
DistributeWorkUnitsPerUnit(st, reg, ord, j, specificUnits, pass, draw) ==
  LET workerNodes == WorkerNodes(reg, ord)
      unitsToDistribute == IF specificUnits = Null
                           THEN GetWorkUnitsByStatus(st.objects[j], "pending")
                           ELSE specificUnits
      a == AssignLoop(st, reg, j, unitsToDistribute, workerNodes,
                      [n \in NodeIds |-> <<>>], draw)
      newSends == UNION {{[node |-> n, job |-> j, units |-> {id}, pass |-> pass] :
                            id \in Range(a.assignments[n])} : n \in NodeIds}
  IN IF workerNodes = <<>>
     THEN ProcessJobLocally(st, j, pass # 0, now)
     ELSE IF newSends = {} /\ pass # 0
          THEN TrackJobCompletion(a.st, j)
          ELSE [a.st EXCEPT !.sends = @ \cup newSends]

\* _distributeWorkUnits(job, specificUnits); specificUnits = Null stands for
\* the omitted argument; pass names the distributeJob call that awaits the
\* sends (0 when nobody awaits them)
DistributeWorkUnits(st, reg, ord, j, specificUnits, pass, draw) ==
  LET workerNodes == WorkerNodes(reg, ord)
      unitsToDistribute == IF specificUnits = Null
                           THEN GetWorkUnitsByStatus(st.objects[j], "pending")
                           ELSE specificUnits
      a == AssignLoop(st, reg, j, unitsToDistribute, workerNodes,
                      [n \in NodeIds |-> <<>>], draw)
      newSends == {[node |-> n, job |-> j, units |-> Range(a.assignments[n]),
                    pass |-> pass] : n \in {m \in NodeIds : a.assignments[m] # <<>>}}
  IN IF workerNodes = <<>>
     THEN ProcessJobLocally(st, j, pass # 0, now)
     ELSE IF newSends = {} /\ pass # 0
          THEN TrackJobCompletion(a.st, j)
          ELSE [a.st EXCEPT !.sends = @ \cup newSends]

\* ====================================================== failure recovery
\* the units in flight on any node, not only on the failed one
AffectedUnitsAnyNode(job, nodeId) ==
  SeqFilter([i \in DOMAIN job.workUnits |-> job.workUnits[i].id],
            {job.workUnits[i].id : i \in {k \in DOMAIN job.workUnits :
                 job.workUnits[k].status \in UnitInFlight}})

\* affectedUnits of _handleNodeFailure (lines 1133-1136)
AffectedUnits(job, nodeId) ==
  SeqFilter([i \in DOMAIN job.workUnits |-> job.workUnits[i].id],
            {job.workUnits[i].id : i \in {k \in DOMAIN job.workUnits :
                 /\ job.workUnits[k].assignedNode = nodeId
                 /\ job.workUnits[k].status \in UnitInFlight}})

\* the patch _handleNodeFailure applies to one affected unit
RecoveryPatch(strategy, unit, nodeId) ==
  IF strategy = "reassign"
  THEN [status |-> "pending", assignedNode |-> Null, attempts |-> unit.attempts + 1,
        blacklistedNodes |-> unit.blacklistedNodes \cup {nodeId}]
  ELSE [status |-> "pending", assignedNode |-> Null, attempts |-> unit.attempts + 1]

RECURSIVE MarkUnits(_, _, _, _)
MarkUnits(st, j, units, nodeId) ==
  IF units = <<>> THEN st
  ELSE LET job == st.objects[j]
       IN MarkUnits(
            StoreJob(st, j, UpdateWorkUnit(job, Head(units),
                       RecoveryPatch(cfg.recovery, Unit(job, Head(units)), nodeId)), now),
            j, Tail(units), nodeId)

\* the 'recreate' branch: units of the failed node are dropped
DropUnits(job, nodeId) ==
  LET kept == {i \in DOMAIN job.workUnits : job.workUnits[i].assignedNode # nodeId}
      pos == SeqFilter([i \in DOMAIN job.workUnits |-> i], kept)
  IN [job EXCEPT !.workUnits = [k \in DOMAIN pos |-> job.workUnits[pos[k]]]]

\* the body of the loop of _handleNodeFailure for one job
RecoverJob(st, reg, ord, j, nodeId, draw) ==
  LET job == st.objects[j]
      affectedUnits == AffectedUnits(job, nodeId)
  IN IF affectedUnits = <<>> THEN st
     ELSE IF cfg.recovery \in {"retry", "reassign"}
          THEN LET s1 == MarkUnits(st, j, affectedUnits, nodeId)
               IN IF cfg.role = "master"
                  THEN DistributeWorkUnits(s1, reg, ord, j, affectedUnits, 0, draw)
                  ELSE s1
          ELSE [st EXCEPT !.objects[j] = DropUnits(job, nodeId)]

JobOrder == <<"j1">>

RECURSIVE RecoverJobs(_, _, _, _, _, _)
RecoverJobs(st, reg, ord, js, nodeId, draw) ==
  IF js = <<>> THEN st
  ELSE RecoverJobs(
         IF Head(js) \in st.jobs
         THEN RecoverJob(st, reg, ord, Head(js), nodeId, draw) ELSE st,
         reg, ord, Tail(js), nodeId, draw)

\* _handleNodeFailure(nodeId)
HandleNodeFailure(st, reg, ord, nodeId, draw) ==
  RecoverJobs(st, reg, ord, JobOrder, nodeId, draw)

\* the scan with this.nodes.delete left out: a stale entry is marked and kept
RECURSIVE HealthScanKeepsEntry(_, _, _, _, _)
HealthScanKeepsEntry(st, reg, ord, todo, draw) ==
  IF todo = <<>> THEN [st |-> st, nodes |-> reg, order |-> ord]
  ELSE LET nodeId == Head(todo)
           timeoutThreshold == now - (HeartbeatInterval * NodeRemovalThreshold)
       IN IF reg[nodeId].lastSeen < timeoutThreshold
          THEN HealthScanKeepsEntry(
                 [HandleNodeFailure(st, reg, ord, nodeId, draw)
                    EXCEPT !.emitted = @ \cup {[type |-> "node:departed", id |-> nodeId]}],
                 [reg EXCEPT ![nodeId].status = "unreachable"], ord,
                 Tail(todo), draw)
          ELSE HealthScanKeepsEntry(st, reg, ord, Tail(todo), draw)

\* the scan of _startMonitoring over this.nodes.entries()
RECURSIVE HealthScan(_, _, _, _, _)
HealthScan(st, reg, ord, todo, draw) ==
  IF todo = <<>> THEN [st |-> st, nodes |-> reg, order |-> ord]
  ELSE LET nodeId == Head(todo)
           timeoutThreshold == now - (HeartbeatInterval * NodeRemovalThreshold)
       IN IF reg[nodeId].lastSeen < timeoutThreshold
          THEN HealthScan(
                 [HandleNodeFailure(st, reg, ord, nodeId, draw)
                    EXCEPT !.emitted = @ \cup {[type |-> "node:departed", id |-> nodeId]}],
                 Remove(reg, nodeId), SeqFilter(ord, Range(ord) \ {nodeId}),
                 Tail(todo), draw)
          ELSE HealthScan(st, reg, ord, Tail(todo), draw)

\* ================================================================ state
\* the configurations explored: standalone, worker, and a master under each
\* load-balancing strategy with 'reassign' and under the default strategy
\* ('weighted') with 'retry' and 'recreate'
Configs ==
  {c \in [enabled : BOOLEAN, role : Roles, recovery : RecoveryStrategies,
          loadBalancing : LoadBalancing, maxConcurrentJobs : {1, 2}] :
     /\ (~c.enabled => c.role = "worker")
     /\ (c.role = "worker" => c.loadBalancing = "weighted" /\ c.recovery = "retry")
     /\ (c.role = "master" => c.maxConcurrentJobs = 2)
     /\ (c.recovery # "reassign" => c.loadBalancing = "weighted")}

\* the announcements peers make
Registrations == {<<"n1", "worker">>, <<"n2", "worker">>}

Draws == [UnitIds -> 1..Cardinality(NodeIds)]

St == [objects |-> objects, jobs |-> jobs, metrics |-> metrics,
       rrCounter |-> rrCounter, listeners |-> listeners, timers |-> timers,
       runs |-> runs, sends |-> sends, emitted |-> {}]

Commit(st) ==
  /\ objects' = st.objects
  /\ jobs' = st.jobs
  /\ metrics' = st.metrics
  /\ rrCounter' = st.rrCounter
  /\ listeners' = st.listeners
  /\ timers' = st.timers
  /\ runs' = st.runs
  /\ sends' = st.sends
  /\ emitted' = st.emitted

Init ==
  /\ cfg \in Configs
  /\ now = 0
  /\ nodes = <<>>
  /\ order = <<>>
  /\ objects = <<>>
  /\ jobs = {}
  /\ metrics = [jobsProcessed |-> 0, workUnitsProcessed |-> 0,
                successRate |-> 0, totalProcessingTime |-> 0]
  /\ rrCounter = 0
  /\ listeners = [j \in JobIds |-> 0]
  /\ timers = [j \in JobIds |-> 0]
  /\ runs = <<>>
  /\ sends = {}
  /\ sent = {}
  /\ cancels = {}
  /\ submits = 0
  /\ assigns = 0
  /\ dups = 0
  /\ tasks = {}
  /\ outbox = {}
  /\ emitted = {}
  /\ model = [status |-> "pending", nodes |-> <<>>]
  /\ intervals = NoIntervals
  /\ pool = NewPool

\* ============================================================== actions
\* the clock advances
Tick ==
  /\ now < MaxTime
  /\ now' = now + TickStep
  /\ emitted' = {}
  /\ UNCHANGED <<cfg, nodes, order, objects, jobs, metrics, rrCounter, listeners,
                 timers, runs, sends, sent, cancels, submits, assigns, dups, tasks, outbox, model, intervals, pool>>

\* resources a peer describes: capacity at registration, usage in heartbeats
ResourceKeys == {"cpuCores", "cpuUsage"}
AnnouncedResources == [k \in ResourceKeys |-> IF k = "cpuCores" THEN 4 ELSE NoValue]
ReportedResources ==
  {[k \in ResourceKeys |-> NoValue],
   [k \in ResourceKeys |-> IF k = "cpuUsage" THEN 50 ELSE NoValue]}

\* the activeJobs counts heartbeats report; only least-loaded selection reads them
ReportedActiveJobs == IF cfg.loadBalancing = "least-loaded" THEN {0, 1} ELSE {0}

\* heartbeat.metrics: left out, or resources and activeJobs, each optional; the
\* heartbeat of lines 845-857 carries no jobQueue
NoMetrics == [given |-> FALSE, resources |-> [k \in ResourceKeys |-> NoValue],
              activeJobs |-> NoValue, jobQueue |-> NoValue]
HeartbeatMetrics ==
  {NoMetrics} \cup
  {[given |-> TRUE, resources |-> r, activeJobs |-> a, jobQueue |-> NoValue] :
     r \in ReportedResources, a \in ReportedActiveJobs \cup {NoValue}}

\* { ...old, ...reported }: a reported key replaces the old value
MergeResources(old, reported) ==
  [k \in ResourceKeys |-> IF reported[k] # NoValue THEN reported[k] ELSE old[k]]

\* registerNode with the self test of line 385 left out
RegisterInRegistryNoSelfTest(reg, ord, n, role, t) ==
  [nodes |-> Put(reg, n, [role |-> role, status |-> "active", lastSeen |-> t,
                         activeJobs |-> NoValue, capabilities |-> {},
                         resources |-> AnnouncedResources,
                         metrics |-> NoMetrics,
                         heartbeats |-> IF n \in DOMAIN reg
                                        THEN reg[n].heartbeats + 1 ELSE 1]),
   order |-> IF n \in DOMAIN reg THEN ord ELSE Append(ord, n),
   emitted |-> {[type |-> "node:registered", id |-> n], Returned("registerNode", "true")}]

\* registerNode(nodeInfo): the registry, its order, the event and the result.
\* The entry is rebuilt: activeJobs and metrics of an earlier entry are
\* dropped; the peers of this model announce no capabilities
RegisterInRegistry(reg, ord, n, role, t) ==
  IF n = Self
  THEN [nodes |-> reg, order |-> ord, emitted |-> {Returned("registerNode", "false")}]
  ELSE [nodes |-> Put(reg, n, [role |-> role, status |-> "active", lastSeen |-> t,
                              activeJobs |-> NoValue, capabilities |-> {},
                              resources |-> AnnouncedResources,
                              metrics |-> NoMetrics,
                              heartbeats |-> IF n \in DOMAIN reg
                                             THEN reg[n].heartbeats + 1 ELSE 1]),
        order |-> IF n \in DOMAIN reg THEN ord ELSE Append(ord, n),
        emitted |-> {[type |-> "node:registered", id |-> n],
                     Returned("registerNode", "true")}]

\* registerNode(nodeInfo) (node:announce or discovery)
RegisterNodeUpTo(n, role, cap) ==
  /\ cfg.enabled
  /\ n \in DOMAIN nodes => nodes[n].heartbeats < cap
  /\ LET r == RegisterInRegistry(nodes, order, n, role, now)
     IN /\ nodes' = r.nodes
        /\ order' = r.order
        /\ emitted' = r.emitted
  /\ UNCHANGED <<cfg, now, objects, jobs, metrics, rrCounter, listeners, timers,
                 runs, sends, sent, cancels, submits, assigns, dups, tasks, outbox, model, intervals, pool>>

RegisterNode(n, role) == RegisterNodeUpTo(n, role, MaxHeartbeats)

\* node:announce of a peer that is not in the registry yet
Announce(n, role) ==
  /\ n \notin DOMAIN nodes
  /\ RegisterNode(n, role)

\* lines 437-457: the entry of a registered node after its heartbeat
ApplyHeartbeat(node, m, t) ==
  LET seen == [node EXCEPT !.lastSeen = t, !.heartbeats = @ + 1]
  IN IF ~m.given THEN seen
     ELSE [seen EXCEPT !.metrics = m,
                       !.resources = MergeResources(@, m.resources),
                       !.activeJobs = IF m.activeJobs # NoValue THEN m.activeJobs ELSE @]

\* a heartbeat of an unknown node creates its entry
HeartbeatInRegistryUpsert(reg, n, m, t) ==
  IF n = Self
  THEN [nodes |-> reg, emitted |-> {Returned("handleHeartbeat", "false")}]
  ELSE [nodes |-> Put(reg, n,
                      ApplyHeartbeat(IF n \in DOMAIN reg THEN reg[n]
                                     ELSE [role |-> "worker", status |-> "active",
                                           lastSeen |-> t, activeJobs |-> NoValue,
                                           capabilities |-> {},
                                           resources |-> AnnouncedResources,
                                           metrics |-> NoMetrics, heartbeats |-> 0],
                                     m, t)),
        emitted |-> {Returned("handleHeartbeat", "true")}]

\* the reported resources replace the entry's instead of being merged into them
HeartbeatInRegistryReplace(reg, n, m, t) ==
  IF n = Self \/ n \notin DOMAIN reg
  THEN [nodes |-> reg, emitted |-> {Returned("handleHeartbeat", "false")}]
  ELSE [nodes |-> [reg EXCEPT ![n] =
                     [ApplyHeartbeat(@, m, t)
                        EXCEPT !.resources = IF m.given THEN m.resources ELSE @]],
        emitted |-> {Returned("handleHeartbeat", "true")}]

\* handleHeartbeat(heartbeat): the registry and the result
HeartbeatInRegistry(reg, n, m, t) ==
  IF n = Self \/ n \notin DOMAIN reg
  THEN [nodes |-> reg, emitted |-> {Returned("handleHeartbeat", "false")}]
  ELSE [nodes |-> [reg EXCEPT ![n] = ApplyHeartbeat(@, m, t)],
        emitted |-> {Returned("handleHeartbeat", "true")}]

\* handleHeartbeat(heartbeat) with heartbeat.nodeId = n and heartbeat.metrics = m
HandleHeartbeat(n, m) ==
  /\ cfg.enabled
  /\ n \in DOMAIN nodes => nodes[n].heartbeats < MaxHeartbeats
  /\ LET r == HeartbeatInRegistry(nodes, n, m, now)
     IN /\ nodes' = r.nodes
        /\ emitted' = r.emitted
  /\ UNCHANGED <<cfg, now, order, objects, jobs, metrics, rrCounter, listeners,
                 timers, runs, sends, sent, cancels, submits, assigns, dups, tasks, outbox, model, intervals, pool>>

\* no unit that recovery would touch has used up the explored attempts
StaleNodes ==
  {n \in DOMAIN nodes :
     nodes[n].lastSeen < now - (HeartbeatInterval * NodeRemovalThreshold)}

AttemptsInBound(ns) ==
  \A j \in jobs : \A i \in DOMAIN objects[j].workUnits :
     LET u == objects[j].workUnits[i]
     IN (u.assignedNode \in ns /\ u.status \in UnitInFlight) => u.attempts < MaxAttempts

\* one firing of the monitoring timer (_startMonitoring)
Monitor ==
  /\ cfg.enabled
  /\ sends = {}
  /\ AttemptsInBound(StaleNodes)
  /\ \E draw \in Draws :
       LET r == HealthScan(St, nodes, order, order, draw)
       IN /\ Commit(r.st)
          /\ nodes' = r.nodes
          /\ order' = r.order
  /\ UNCHANGED <<cfg, now, sent, cancels, submits, assigns, dups, tasks, outbox, model, intervals, pool>>

\* _handleNodeDeparture(nodeId) on a node:departure message
HandleNodeDeparture(n) ==
  /\ cfg.enabled
  /\ sends = {}
  /\ n \in DOMAIN nodes
  /\ AttemptsInBound({n})
  /\ \E draw \in Draws :
       Commit([HandleNodeFailure(St, nodes, order, n, draw)
                 EXCEPT !.emitted = @ \cup {[type |-> "node:departed", id |-> n]}])
  /\ nodes' = Remove(nodes, n)
  /\ order' = SeqFilter(order, Range(order) \ {n})
  /\ UNCHANGED <<cfg, now, sent, cancels, submits, assigns, dups, tasks, outbox, model, intervals, pool>>

\* the condition of line 169 with the role test left out
RunsLocallyByFlagOnly == ~cfg.enabled

\* distributeJob line 169: standalone mode, or this node is a worker only
RunsLocally == ~cfg.enabled \/ cfg.role = "worker"

\* distributeJob(job) up to its first wait
\* the units decomposed anew on every submission
WorkUnitsDecomposedAgain(job) ==
  [job EXCEPT !.workUnits = [i \in 1..UnitsPerJob |-> NewUnit(i)]]

\* lines 147-160: createWorkUnits is called only for a job without units
WorkUnitsCreatedIfNone(job) ==
  IF Len(job.workUnits) = 0 THEN CreateWorkUnits(job) ELSE job

DistributeJob(j) ==
  /\ submits < MaxSubmits
  /\ sends = {}
  /\ submits' = submits + 1
  /\ LET fresh == j \notin DOMAIN objects
         job0 == IF fresh THEN NewJob ELSE objects[j]
         job1 == JobStart(WorkUnitsCreatedIfNone(job0), now)
         s0 == [St EXCEPT !.objects = Put(@, j, job0),
                          !.jobs = @ \cup {j}]
         s1 == StoreJob(s0, j, job1, now)
     IN IF RunsLocally
        THEN Commit(ProcessJobLocally(s1, j, TRUE, now))
        ELSE \E draw \in Draws :
               Commit(DistributeWorkUnits(s1, nodes, order, j, Null, submits + 1,
                                          draw))
  /\ UNCHANGED <<cfg, now, nodes, order, sent, cancels, assigns, dups, tasks, outbox, model, intervals, pool>>

\* the revert counting as an attempt, as recovery does
RECURSIVE RevertUnitsCountingAttempt(_, _, _)
RevertUnitsCountingAttempt(st, j, ids) ==
  IF ids = {} THEN st
  ELSE LET id == CHOOSE x \in ids : TRUE
       IN RevertUnitsCountingAttempt(
            StoreJob(st, j, UpdateWorkUnit(st.objects[j], id,
                       [status |-> "pending", assignedNode |-> Null,
                        attempts |-> Unit(st.objects[j], id).attempts + 1]), now),
            j, ids \ {id})

\* the revert written straight into the units, past updateWorkUnit
RECURSIVE RevertUnitsDirect(_, _, _)
RevertUnitsDirect(st, j, ids) ==
  IF ids = {} THEN st
  ELSE LET id == CHOOSE x \in ids : TRUE
           i == UnitIndex(st.objects[j], id)
       IN RevertUnitsDirect(
            IF i = 0 THEN st
            ELSE [st EXCEPT !.objects[j].workUnits[i] =
                               ApplyPatch(@, [status |-> "pending", assignedNode |-> Null])],
            j, ids \ {id})

\* the reset of the unit assignments after a failed send (lines 1629-1641)
RECURSIVE RevertUnits(_, _, _)
RevertUnits(st, j, ids) ==
  IF ids = {} THEN st
  ELSE LET id == CHOOSE x \in ids : TRUE
       IN RevertUnits(
            StoreJob(st, j, UpdateWorkUnit(st.objects[j], id,
                       [status |-> "pending", assignedNode |-> Null]), now),
            j, ids \ {id})

\* the promise of one work:assign send settles (_distributeWorkUnits lines
\* 1616-1645); the distributeJob call that awaited the last send of its pass
\* goes on to _trackJobCompletion
SendSettle(s, ok) ==
  /\ s \in sends
  /\ sent' = IF ok THEN sent \cup {[node |-> s.node, job |-> s.job, unit |-> id] : id \in s.units}
             ELSE sent
  /\ \E s1 \in {IF ok THEN St ELSE RevertUnits(St, s.job, s.units)} :
       LET s2 == [s1 EXCEPT !.sends = @ \ {s}]
           last == s.pass # 0 /\ ~\E o \in s2.sends : o.pass = s.pass
       IN \E s3 \in {IF last THEN TrackJobCompletion(s2, s.job) ELSE s2} : Commit(s3)
  /\ UNCHANGED <<cfg, now, nodes, order, cancels, submits, assigns, dups, tasks, outbox, model, intervals, pool>>

\* the result written straight into the unit, past updateWorkUnit
ProcessWorkUnitResultDirect(st, j, id, outcome) ==
  IF j \notin st.jobs \/ ~HasUnit(st.objects[j], id) THEN st
  ELSE LET i == UnitIndex(st.objects[j], id)
       IN [st EXCEPT !.objects[j].workUnits[i] =
             ApplyPatch(@, IF outcome = "error"
                           THEN [status |-> "failed", error |-> "error"]
                           ELSE [status |-> "completed", result |-> outcome])]

\* the job looked up among every job object ever submitted, not in this.jobs
ProcessWorkUnitResultAnyJob(st, j, id, outcome) ==
  IF j \notin DOMAIN st.objects
  THEN [st EXCEPT !.emitted = @ \cup {Returned("processWorkUnitResult", "false")}]
  ELSE [(IF outcome = "error"
         THEN StoreJob(st, j, UpdateWorkUnit(st.objects[j], id,
                         [status |-> "failed", error |-> "error"]), now)
         ELSE StoreJob(st, j, UpdateWorkUnit(st.objects[j], id,
                         [status |-> "completed", result |-> outcome]), now))
          EXCEPT !.emitted = @ \cup {Returned("processWorkUnitResult", "true")}]

\* processWorkUnitResult(resultData); outcome is a payload or "error"
ProcessWorkUnitResult(st, j, id, outcome) ==
  IF j \notin st.jobs
  THEN [st EXCEPT !.emitted = @ \cup {Returned("processWorkUnitResult", "false")}]
  ELSE [(IF outcome = "error"
         THEN StoreJob(st, j, UpdateWorkUnit(st.objects[j], id,
                         [status |-> "failed", error |-> "error"]), now)
         ELSE StoreJob(st, j, UpdateWorkUnit(st.objects[j], id,
                         [status |-> "completed", result |-> outcome]), now))
          EXCEPT !.emitted = @ \cup {Returned("processWorkUnitResult", "true")}]

\* the payload a node produces: _executeOperations stamps processorId
ResultOf(n) == n

\* a work:result message from a node that received the unit arrives; the
\* transport may deliver the same message once more later (again = TRUE)
WorkResult(n, j, id, outcome, again) ==
  /\ cfg.enabled
  /\ [node |-> n, job |-> j, unit |-> id] \in sent
  /\ outcome \in {ResultOf(n), "error"}
  /\ IF again
     THEN dups < MaxDuplicates /\ dups' = dups + 1 /\ sent' = sent
     ELSE dups' = dups /\ sent' = sent \ {[node |-> n, job |-> j, unit |-> id]}
  /\ Commit(ProcessWorkUnitResult(St, j, id, outcome))
  /\ UNCHANGED <<cfg, now, nodes, order, cancels, submits, assigns, tasks, outbox, model, intervals, pool>>

\* the executor returns or raises for a unit of a local run (processUnit
\* after its await); the run then starts its next unit or finishes
LocalFinish(i, id, outcome) ==
  /\ i \in DOMAIN runs
  /\ id \in runs[i].active
  /\ LET run == runs[i]
         j == run.job
         s1 == IF outcome = "error"
               THEN StoreJob(St, j, UpdateWorkUnit(objects[j], id,
                               [status |-> "failed", error |-> "error"]), now)
               ELSE [StoreJob(St, j, UpdateWorkUnit(objects[j], id,
                               [status |-> "completed", result |-> outcome]), now)
                       EXCEPT !.metrics.workUnitsProcessed = @ + 1]
         f == FillRun(s1, [run EXCEPT !.active = @ \ {id}], now)
         others == [k \in 1..(Len(runs) - 1) |-> IF k < i THEN runs[k] ELSE runs[k + 1]]
     IN IF f.run.active = {}
        THEN Commit(FinalizeRun([f.st EXCEPT !.runs = others], f.run, now))
        ELSE Commit([f.st EXCEPT !.runs[i] = f.run])
  /\ UNCHANGED <<cfg, now, nodes, order, sent, cancels, submits, assigns, dups, tasks, outbox, model, intervals, pool>>

\* nodes cancelJob sends job:cancel to
NodesWithUnits(job) ==
  {job.workUnits[i].assignedNode : i \in DOMAIN job.workUnits} \ {Null}

\* cancelJob(jobId) up to its await
CancelJob(j) ==
  /\ j \in jobs
  /\ IF ~cfg.enabled \/ cfg.role = "worker" \/ NodesWithUnits(objects[j]) = {}
     THEN /\ Commit(StoreJob(St, j, JobCancel(objects[j]), now))
          /\ UNCHANGED cancels
     ELSE /\ cancels' = cancels \cup {j}
          /\ Commit(St)
  /\ UNCHANGED <<cfg, now, nodes, order, sent, submits, assigns, dups, tasks, outbox, model, intervals, pool>>

\* Promise.all over the job:cancel sends settles: job.cancel() runs only
\* when every send succeeded
CancelSettle(j, ok) ==
  /\ j \in cancels
  /\ cancels' = cancels \ {j}
  /\ Commit(IF ok THEN StoreJob(St, j, JobCancel(objects[j]), now) ELSE St)
  /\ UNCHANGED <<cfg, now, nodes, order, sent, submits, assigns, dups, tasks, outbox, model, intervals, pool>>

\* _handleJobCancellation(message) on a job:cancel message
HandleJobCancellation(j) ==
  /\ cfg.enabled
  /\ j \in jobs
  /\ Commit(StoreJob(St, j, JobCancel(objects[j]), now))
  /\ UNCHANGED <<cfg, now, nodes, order, sent, cancels, submits, assigns, dups, tasks, outbox, model, intervals, pool>>

\* the removal timeout armed by completionHandler fires
RemovalTimer(j) ==
  /\ timers[j] > 0
  /\ Commit([St EXCEPT !.jobs = @ \ {j}, !.timers[j] = @ - 1])
  /\ UNCHANGED <<cfg, now, nodes, order, sent, cancels, submits, assigns, dups, tasks, outbox, model, intervals, pool>>

\* what reading a property the object does not have gives, among unit ids
UndefinedUnitId == 0

\* an element of `units` in a work:assign message: the job's own unit object,
\* pushed as it is (line 1607) and marked assigned (line 1610)
AssignedUnitInMessage(id, n) ==
  [NewUnit(id) EXCEPT !.status = "assigned", !.assignedNode = n]

\* unit.unitId as the receiver of work:assign reads it (lines 1290, 1310)
UnitIdRead(unit) ==
  IF "unitId" \in DOMAIN unit THEN unit.unitId ELSE UndefinedUnitId

\* the work:result message _handleWorkAssignment sends for one received unit
WorkResultMessage(j, unit, outcome) ==
  [job |-> j, unitId |-> UnitIdRead(unit), outcome |-> outcome]

\* the work:result message sent for the received unit of task t, with the
\* task it answers
ResultSent(t, outcome) ==
  [to |-> t.sender, task |-> t,
   message |-> WorkResultMessage(t.job, AssignedUnitInMessage(t.unit, Self), outcome)]

\* _handleWorkAssignment(message) up to the first await: a worker receives
\* work:assign for job j with the given units
HandleWorkAssignment(j, ids, sender, withDefinition) ==
  /\ cfg.enabled
  /\ cfg.role = "worker"
  /\ assigns < MaxAssigns
  /\ assigns' = assigns + 1
  /\ j \notin DOMAIN objects \/ j \in jobs
  /\ IF j \notin jobs /\ withDefinition
     THEN Commit([St EXCEPT !.objects = Put(@, j, JobStart(NewJob, now)),
                            !.jobs = @ \cup {j}])
     ELSE Commit(St)
  /\ tasks' = IF j \in jobs \/ withDefinition
              THEN tasks \cup {[job |-> j, unit |-> id, sender |-> sender,
                                  assignment |-> assigns + 1] : id \in ids}
              ELSE tasks
  /\ UNCHANGED <<cfg, now, nodes, order, sent, cancels, submits, dups, outbox, model, intervals, pool>>

\* processWorkUnit returns for one received unit and the result is sent
\* (lines 1281-1317); a failed send is followed by one send of the error
WorkerFinish(t, outcome, sendOk, resendOk) ==
  /\ t \in tasks
  /\ tasks' = tasks \ {t}
  /\ outbox' = IF sendOk
               THEN outbox \cup {ResultSent(t, outcome)}
               ELSE IF resendOk
                    THEN outbox \cup {ResultSent(t, "error")}
                    ELSE outbox
  /\ Commit(IF sendOk THEN [St EXCEPT !.metrics.workUnitsProcessed = @ + 1] ELSE St)
  /\ UNCHANGED <<cfg, now, nodes, order, sent, cancels, submits, assigns, dups, model, intervals, pool>>

\* ------------------------------ DistributedProcessingModel of part_016
MaxModelNodes == 2
ModelNodeStatuses == {"assigned", "processing", "completed"}

\* updateStatus(status)
UpdateStatus(status) ==
  /\ model' = [model EXCEPT !.status = status]
  /\ UNCHANGED ctrlVars

\* assignNode(node)
AssignNode(n) ==
  /\ Len(model.nodes) < MaxModelNodes
  /\ model' = [model EXCEPT !.nodes = Append(@, [id |-> n, status |-> "assigned"])]
  /\ UNCHANGED ctrlVars

\* updateNodeStatus(nodeId, newStatus): the first entry with that id
UpdateNodeStatus(n, newStatus) ==
  /\ \E i \in DOMAIN model.nodes : model.nodes[i].id = n
  /\ LET i == CHOOSE k \in DOMAIN model.nodes :
                /\ model.nodes[k].id = n
                /\ \A m \in 1..(k - 1) : model.nodes[m].id # n
     IN model' = [model EXCEPT !.nodes[i].status = newStatus]
  /\ UNCHANGED ctrlVars

\* the node a load-balancing strategy returned for a unit
Selected(strategy, node) == [type |-> "selected:" \o strategy, id |-> node]

\* one call of a load-balancing strategy with the active workers of the
\* registry as candidates, as at line 1595; draw is the position Math.random
\* selects
CallBalancer(strategy, unit, draw) ==
  /\ LET sel == LoadBalancer(strategy, nodes, WorkerNodes(nodes, order), unit,
                             rrCounter, draw)
     IN /\ rrCounter' = sel.counter
        /\ emitted' = {Selected(strategy, sel.node)}
  /\ UNCHANGED <<cfg, now, nodes, order, objects, jobs, metrics, listeners, timers,
                 runs, sends, sent, cancels, submits, assigns, dups, tasks, outbox, model, intervals, pool>>

\* ======================================================= specifications
Next ==
  \/ Tick
  \/ \E r \in Registrations : RegisterNode(r[1], r[2])
  \/ \E n \in NodeIds \cup {Self}, m \in HeartbeatMetrics : HandleHeartbeat(n, m)
  \/ Monitor
  \/ \E n \in NodeIds : HandleNodeDeparture(n)
  \/ \E j \in JobIds : DistributeJob(j)
  \/ \E s \in sends, ok \in BOOLEAN : SendSettle(s, ok)
  \/ \E n \in NodeIds, j \in JobIds, id \in UnitIds, o \in Payloads \cup {"error"},
        again \in BOOLEAN :
       WorkResult(n, j, id, o, again)
  \/ \E i \in 1..MaxSubmits, id \in UnitIds, o \in {ResultOf(Self), "error"} :
       LocalFinish(i, id, o)
  \/ \E j \in JobIds : CancelJob(j)
  \/ \E j \in JobIds, ok \in BOOLEAN : CancelSettle(j, ok)
  \/ \E j \in JobIds : HandleJobCancellation(j)
  \/ \E j \in JobIds : RemovalTimer(j)
  \/ \E j \in JobIds, ids \in (SUBSET UnitIds) \ {{}}, d \in BOOLEAN :
       HandleWorkAssignment(j, ids, "n1", d)
  \/ \E t \in tasks, o \in {ResultOf(Self), "error"}, a \in BOOLEAN, b \in BOOLEAN :
       WorkerFinish(t, o, a, b)

Spec == Init /\ [][Next]_vars

ModelNext ==
  \/ \E s \in JobStatuses : UpdateStatus(s)
  \/ \E n \in NodeIds : AssignNode(n)
  \/ \E n \in NodeIds, s \in ModelNodeStatuses : UpdateNodeStatus(n, s)

ModelSpec == Init /\ [][ModelNext]_vars

\* ------------------------------------------------- partial specifications
\* Each restricts the configuration and the operations in play to one
\* concern; every behaviour of one of them is a behaviour of Spec.

\* a standalone node: every job is processed locally
LocalInit == Init /\ ~cfg.enabled

LocalNext ==
  \/ Tick
  \/ \E j \in JobIds : DistributeJob(j)
  \/ \E i \in 1..MaxSubmits, id \in UnitIds, o \in {ResultOf(Self), "error"} :
       LocalFinish(i, id, o)
  \/ \E j \in JobIds : CancelJob(j)
  \/ \E j \in JobIds : RemovalTimer(j)

LocalSpec == LocalInit /\ [][LocalNext]_vars

\* a master with the default load balancing and one peer that is found
\* stale by the health check
MasterInit ==
  Init /\ cfg.enabled /\ cfg.role = "master" /\ cfg.loadBalancing = "weighted"

RetryInit == MasterInit /\ cfg.recovery = "retry"

ResultNext ==
  \/ Tick
  \/ Announce("n1", "worker")
  \/ Monitor
  \/ \E j \in JobIds : DistributeJob(j)
  \/ \E s \in sends, ok \in BOOLEAN : SendSettle(s, ok)
  \/ \E n \in NodeIds, j \in JobIds, id \in UnitIds, o \in Payloads \cup {"error"} :
       WorkResult(n, j, id, o, FALSE)

ResultSpec == RetryInit /\ [][ResultNext]_vars

\* ================================================================ claims
UnitsOf(j) == {objects[j].workUnits[i] : i \in DOMAIN objects[j].workUnits}

\* C1: a job of the job table that is completed has only completed units
\* (never a pending, assigned, processing or failed one).
CompletedJobHasOnlyCompletedUnits ==
  \A j \in jobs :
     objects[j].status = "completed" => \A u \in UnitsOf(j) : u.status = "completed"

\* C2: a work unit's assignedNode is non-null exactly when its status is
\* assigned or processing.
AssignedNodeIffInFlight ==
  \A j \in jobs : \A u \in UnitsOf(j) :
     (u.assignedNode # Null) <=> (u.status \in UnitInFlight)

\* the master of ResultSpec with its local runs, under fair scheduling of
\* the timers, of the settlement of sends, of the delivery of results and of
\* the executor
FairNext ==
  \/ ResultNext
  \/ \E i \in 1..MaxSubmits, id \in UnitIds, o \in {ResultOf(Self), "error"} :
       LocalFinish(i, id, o)

\* the monitoring timer can change the state: a node is stale, or the events
\* of the previous handler are still recorded
MonitorEnabled ==
  /\ cfg.enabled
  /\ sends = {}
  /\ AttemptsInBound(StaleNodes)
  /\ (StaleNodes # {} \/ emitted # {})

\* weak fairness of every timer, send, delivery and local execution; for the
\* monitoring timer it is written out over MonitorEnabled
Fairness ==
  /\ WF_vars(Tick)
  /\ ([]<>(~MonitorEnabled) \/ []<><<Monitor>>_vars)
  /\ WF_vars(\E s \in sends, ok \in BOOLEAN : SendSettle(s, ok))
  /\ WF_vars(\E n \in NodeIds, j \in JobIds, id \in UnitIds, o \in Payloads \cup {"error"} :
               WorkResult(n, j, id, o, FALSE))
  /\ WF_vars(\E i \in 1..MaxSubmits, id \in UnitIds, o \in {ResultOf(Self), "error"} :
               LocalFinish(i, id, o))

FairSpec == RetryInit /\ [][FairNext]_vars /\ Fairness

\* a unit of an accepted job that is not terminal waits in a non-terminal status
UnitInProgress(j, id) ==
  /\ j \in jobs
  /\ objects[j].status \notin JobTerminal
  /\ HasUnit(objects[j], id)
  /\ Unit(objects[j], id).status \in {"pending", "assigned", "processing"}

\* C3: every accepted job eventually reaches a terminal status; no job
\* remains forever with a unit stuck in pending, assigned or processing.
NoUnitStuckForever ==
  \A j \in JobIds, id \in UnitIds : []<>(~UnitInProgress(j, id))

\* C4: after a health-check cycle every node that was stale is out of the
\* registry, a node:departed event was raised for it, and no unit of any job
\* is assigned to it or being processed by it.
StaleNodeFullyRemoved ==
  [][Monitor =>
       \A n \in StaleNodes :
          /\ n \notin DOMAIN nodes'
          /\ [type |-> "node:departed", id |-> n] \in emitted'
          /\ \A j \in jobs' : \A i \in DOMAIN objects'[j].workUnits :
                ~(/\ objects'[j].workUnits[i].assignedNode = n
                  /\ objects'[j].workUnits[i].status \in UnitInFlight)]_vars

\* a master that recovers with 'reassign'
ReassignInit == MasterInit /\ cfg.recovery = "reassign"

ReassignSpec == ReassignInit /\ [][ResultNext]_vars

\* C5: with 'reassign', a unit is never assigned to a node that is in its
\* blacklistedNodes.
NeverAssignedToBlacklistedNode ==
  \A j \in jobs : \A u \in UnitsOf(j) :
     u.status \in UnitInFlight => u.assignedNode \notin u.blacklistedNodes

\* a master whose peer departs and joins again
DepartureNext ==
  \/ Announce("n1", "worker")
  \/ HandleNodeDeparture("n1")
  \/ \E j \in JobIds : DistributeJob(j)
  \/ \E s \in sends, ok \in BOOLEAN : SendSettle(s, ok)
  \/ \E n \in NodeIds, j \in JobIds, id \in UnitIds, o \in Payloads \cup {"error"} :
       WorkResult(n, j, id, o, FALSE)

DepartureSpec == RetryInit /\ [][DepartureNext]_vars

\* C6: no unit's attempts counter exceeds recovery.maxRetries.
AttemptsWithinMaxRetries ==
  \A j \in jobs : \A u \in UnitsOf(j) : u.attempts <= MaxRetries

\* a master and its peers while no node fails: work goes out and results
\* come back, some of them twice
DeliveryNext ==
  \/ \E r \in Registrations : Announce(r[1], r[2])
  \/ \E j \in JobIds : DistributeJob(j)
  \/ \E s \in sends, ok \in BOOLEAN : SendSettle(s, ok)
  \/ \E n \in NodeIds, j \in JobIds, id \in UnitIds, o \in Payloads \cup {"error"},
        again \in BOOLEAN :
       WorkResult(n, j, id, o, again)

DeliverySpec == RetryInit /\ [][DeliveryNext]_vars

TerminalStatusIsFinal ==
  [][model.status \in JobTerminal => model.status' = model.status]_vars

\* a master whose jobs are cancelled while units are out on a peer
CancelNext ==
  \/ Announce("n1", "worker")
  \/ \E j \in JobIds : DistributeJob(j)
  \/ \E s \in sends, ok \in BOOLEAN : SendSettle(s, ok)
  \/ \E n \in NodeIds, j \in JobIds, id \in UnitIds, o \in Payloads \cup {"error"} :
       WorkResult(n, j, id, o, FALSE)
  \/ \E j \in JobIds : CancelJob(j)
  \/ \E j \in JobIds, ok \in BOOLEAN : CancelSettle(j, ok)

CancelSpec == RetryInit /\ [][CancelNext]_vars

\* C10: when a cancelJob call for a pending or running job has ended, the job
\* is cancelled, whether or not its job:cancel sends were delivered.
CancelEndsCancelled ==
  [][\A j \in cancels :
       (j \notin cancels' /\ objects[j].status \in {"pending", "running"})
       => objects'[j].status = "cancelled"]_vars

\* units that a run of _processJobLocally for job j has started and not finished
ActiveUnits(rs, j) ==
  UNION {rs[i].active : i \in {k \in DOMAIN rs : rs[k].job = j}}

\* C11: a unit that is pending when its job is cancelled is not started by
\* local execution, assigned to a node or sent in a work:assign afterwards.
CancelledJobStartsNoUnit ==
  [][\A j \in jobs : \A i \in DOMAIN objects[j].workUnits :
       LET u == objects[j].workUnits[i]
       IN (/\ objects[j].status = "cancelled"
           /\ u.status = "pending"
           /\ u.id \notin ActiveUnits(runs, j))
          => /\ u.id \notin ActiveUnits(runs', j)
             /\ \A s \in sends' \ sends : ~(s.job = j /\ u.id \in s.units)
             /\ \A k \in DOMAIN objects'[j].workUnits :
                  objects'[j].workUnits[k].id = u.id
                  => objects'[j].workUnits[k].status \notin UnitInFlight]_vars

\* a unit of a running job waits as pending and no local run has it queued:
\* on a master with workers this is a unit whose assignment was reverted
WaitsForNextPass(j, id) ==
  /\ j \in jobs
  /\ objects[j].status = "running"
  /\ HasUnit(objects[j], id)
  /\ Unit(objects[j], id).status = "pending"
  /\ \A i \in DOMAIN runs : ~(runs[i].job = j /\ id \in Range(runs[i].queue))

\* C12: a unit reverted to pending by a failed work:assign send is picked up
\* again by a later distribution pass.
RevertedUnitPickedUpAgain ==
  \A j \in JobIds, id \in UnitIds :
     WaitsForNextPass(j, id) ~> ~WaitsForNextPass(j, id)

\* a master that selects nodes with the adaptive balancer and recovers with
\* 'reassign'
AdaptiveInit ==
  /\ Init
  /\ cfg.enabled
  /\ cfg.role = "master"
  /\ cfg.loadBalancing = "auto"
  /\ cfg.recovery = "reassign"

AdaptiveSpec == AdaptiveInit /\ [][ResultNext]_vars

\* C13: after distributeJob has gone through the pending units of a running
\* job, none of them is still pending, unless a local run has it queued: a
\* unit for which no node was selected runs locally.
NoUnitLeftPendingByDistribution ==
  [][\A j \in JobIds :
       (DistributeJob(j) /\ objects'[j].status = "running")
       => \A k \in DOMAIN objects'[j].workUnits :
            objects'[j].workUnits[k].status = "pending"
            => \E i \in DOMAIN runs' :
                 /\ runs'[i].job = j
                 /\ objects'[j].workUnits[k].id \in Range(runs'[i].queue)]_vars

\* any configuration; peers announce themselves, jobs are submitted, sends
\* settle and locally started units finish
SubmitNext ==
  \/ \E r \in Registrations : Announce(r[1], r[2])
  \/ \E j \in JobIds : DistributeJob(j)
  \/ \E s \in sends, ok \in BOOLEAN : SendSettle(s, ok)
  \/ \E i \in 1..MaxSubmits, id \in UnitIds, o \in {ResultOf(Self), "error"} :
       LocalFinish(i, id, o)

SubmitSpec == Init /\ [][SubmitNext]_vars

\* the unit is pending when distributeJob(j) is called (a new job's units are)
PendingAtSubmit(j, id) ==
  IF j \in DOMAIN objects /\ HasUnit(objects[j], id)
  THEN Unit(objects[j], id).status = "pending"
  ELSE TRUE

\* the call ran the job on this node: no work:assign is under way and every
\* unit it took up is processing with this node as its assignedNode
ExecutedLocally(j) ==
  /\ sends' = {}
  /\ \A k \in DOMAIN objects'[j].workUnits :
       LET u == objects'[j].workUnits[k]
       IN (PendingAtSubmit(j, u.id) /\ u.status # "pending")
          => u.status = "processing" /\ u.assignedNode = Self

\* the call went through the scheduler: no local run was started and every
\* unit it took up is assigned to an active worker and is in the work:assign
\* for that worker
AssignedByScheduler(j) ==
  /\ runs' = runs
  /\ \A k \in DOMAIN objects'[j].workUnits :
       LET u == objects'[j].workUnits[k]
       IN (PendingAtSubmit(j, u.id) /\ u.status # "pending")
          => /\ u.status = "assigned"
             /\ u.assignedNode \in Range(WorkerNodes(nodes, order))
             /\ \E s \in sends' : s.node = u.assignedNode /\ s.job = j /\ u.id \in s.units

\* C14 as stated: distributeJob runs the job locally exactly when clustering
\* is disabled or the registry holds no active worker, and assigns through the
\* scheduler otherwise.
LocalExactlyWhenNoCluster ==
  [][\A j \in JobIds :
       DistributeJob(j)
       => IF ~cfg.enabled \/ WorkerNodes(nodes, order) = <<>>
          THEN ExecutedLocally(j)
          ELSE AssignedByScheduler(j)]_vars

\* C14 amended: distributeJob runs the job locally exactly when clustering is
\* disabled, this node's role is worker, or the registry holds no active
\* worker, and assigns through the scheduler otherwise.
LocalExactlyWhenNoClusterOrWorkerRole ==
  [][\A j \in JobIds :
       DistributeJob(j)
       => IF ~cfg.enabled \/ cfg.role = "worker" \/ WorkerNodes(nodes, order) = <<>>
          THEN ExecutedLocally(j)
          ELSE AssignedByScheduler(j)]_vars

\* a worker-role node with clustering enabled and an active worker in its
\* registry has started a unit of a submitted job itself
WorkerRoleRanJobLocally ==
  /\ cfg.enabled
  /\ cfg.role = "worker"
  /\ WorkerNodes(nodes, order) # <<>>
  /\ \E j \in jobs : \E k \in DOMAIN objects[j].workUnits :
       /\ objects[j].workUnits[k].status = "processing"
       /\ objects[j].workUnits[k].assignedNode = Self

\* a master whose completed jobs are removed from the job table while results
\* of their units may still arrive
ExpiryNext ==
  \/ DeliveryNext
  \/ \E j \in JobIds : RemovalTimer(j)

ExpirySpec == RetryInit /\ [][ExpiryNext]_vars

\* C15: processWorkUnitResult for a job that is not in the job table returns
\* false and changes no job, unit, registry entry or metric.
ResultForUnknownJobDiscarded ==
  [][\A j \in JobIds :
       j \notin jobs
       => \A n \in NodeIds, id \in UnitIds, o \in Payloads \cup {"error"},
             again \in BOOLEAN :
             WorkResult(n, j, id, o, again)
             => /\ emitted' = {Returned("processWorkUnitResult", "false")}
                /\ objects' = objects
                /\ jobs' = jobs
                /\ nodes' = nodes
                /\ order' = order
                /\ metrics' = metrics
                /\ listeners' = listeners
                /\ timers' = timers]_vars

\* a result for a job that completed and was removed has just been turned away
ResultForRemovedJobTurnedAway ==
  \E j \in DOMAIN objects :
     /\ j \notin jobs
     /\ objects[j].status = "completed"
     /\ emitted = {Returned("processWorkUnitResult", "false")}

\* a master whose units run on workers or, while no worker is registered, on
\* the master itself
CompletionNext ==
  \/ DeliveryNext
  \/ \E i \in 1..MaxSubmits, id \in UnitIds, o \in {ResultOf(Self), "error"} :
       LocalFinish(i, id, o)

CompletionSpec == RetryInit /\ [][CompletionNext]_vars

\* id is the only unit of the running job j that is not terminal, it is in
\* flight, and every other unit has completed
LastUnitInFlight(j, id) ==
  /\ j \in jobs
  /\ objects[j].status = "running"
  /\ HasUnit(objects[j], id)
  /\ Unit(objects[j], id).status \in UnitInFlight
  /\ \A u \in UnitsOf(j) : u.id # id => u.status = "completed"

\* a successful result for unit id of job j is delivered, from a worker or
\* from the local executor
SuccessDelivered(j, id) ==
  \/ \E n \in NodeIds, again \in BOOLEAN : WorkResult(n, j, id, ResultOf(n), again)
  \/ \E i \in 1..MaxSubmits :
       /\ i \in DOMAIN runs
       /\ runs[i].job = j
       /\ LocalFinish(i, id, ResultOf(Self))

\* C16: the successful result for the last unit in flight makes the job
\* completed, the completion event fires, and the completion metrics are
\* updated then, by one run of the completion handler.
LastResultCompletesJobOnce ==
  [][\A j \in JobIds, id \in UnitIds :
       (LastUnitInFlight(j, id) /\ SuccessDelivered(j, id))
       => /\ objects'[j].status = "completed"
          /\ [type |-> "jobCompleted", id |-> j] \in emitted'
          /\ LET m == CompletionHandler(metrics, objects'[j], now)
             IN /\ metrics'.jobsProcessed = m.jobsProcessed
                /\ metrics'.totalProcessingTime = m.totalProcessingTime
                /\ metrics'.successRate = m.successRate]_vars

\* a standalone node on which time passes, started units finish and armed
\* retention timeouts fire
RetentionFairness ==
  /\ WF_vars(Tick)
  /\ WF_vars(\E i \in 1..MaxSubmits, id \in UnitIds, o \in {ResultOf(Self), "error"} :
               LocalFinish(i, id, o))
  /\ WF_vars(\E j \in JobIds : RemovalTimer(j))

RetentionSpec == LocalSpec /\ RetentionFairness

\* C17: a job that has reached a terminal state is eventually removed from
\* the job table.
TerminalJobEventuallyRemoved ==
  \A j \in JobIds :
     (j \in jobs /\ objects[j].status \in JobTerminal) ~> (j \notin jobs)

\* a master whose peers, and the node itself, announce themselves and send
\* heartbeats while the clock advances and the health check runs
RegistryInit ==
  /\ Init
  /\ cfg.enabled
  /\ cfg.role = "master"
  /\ cfg.loadBalancing = "least-loaded"

RegistryNext ==
  \/ Tick
  \/ \E r \in Registrations \cup {<<Self, "worker">>} : RegisterNode(r[1], r[2])
  \/ \E n \in NodeIds \cup {Self}, m \in HeartbeatMetrics : HandleHeartbeat(n, m)
  \/ Monitor

RegistrySpec == RegistryInit /\ [][RegistryNext]_vars

\* C18: registerNode with the local node's id returns false and leaves the
\* registry as it is; with any other id it returns true and the registry then
\* holds one entry for the id with lastSeen = now; the local id is never a key.
RegisterRejectsSelfOnly ==
  [][/\ Self \notin DOMAIN nodes'
     /\ \A n \in NodeIds \cup {Self}, role \in Roles :
          RegisterNode(n, role)
          => IF n = Self
             THEN /\ Returned("registerNode", "false") \in emitted'
                  /\ nodes' = nodes
                  /\ order' = order
             ELSE /\ Returned("registerNode", "true") \in emitted'
                  /\ n \in DOMAIN nodes'
                  /\ nodes'[n].lastSeen = now
                  /\ Cardinality({i \in DOMAIN order' : order'[i] = n}) = 1
                  /\ DOMAIN nodes' = DOMAIN nodes \cup {n}
                  /\ \A o \in DOMAIN nodes \ {n} : nodes'[o] = nodes[o]]_vars

\* the local node's own announcement has just been turned away while a peer
\* that announced itself twice is registered
SelfAnnouncementTurnedAway ==
  /\ emitted = {Returned("registerNode", "false")}
  /\ \E n \in DOMAIN nodes : nodes[n].heartbeats = 2 /\ nodes[n].lastSeen = now
  /\ now > 0

\* C19: a heartbeat from a node id that is not in the registry returns false
\* and leaves the registry as it is: no entry is created.
HeartbeatOfUnknownNodeIgnored ==
  [][\A n \in NodeIds \cup {Self} :
       n \notin DOMAIN nodes
       => \A m \in HeartbeatMetrics :
            HandleHeartbeat(n, m)
            => /\ Returned("handleHeartbeat", "false") \in emitted'
               /\ nodes' = nodes
               /\ order' = order]_vars

\* a heartbeat has just been turned away by a registry that holds one peer:
\* it came from the other peer or from a node the health check removed
HeartbeatTurnedAway ==
  /\ emitted = {Returned("handleHeartbeat", "false")}
  /\ Cardinality(DOMAIN nodes) = 1
  /\ now > 0

\* C20: a heartbeat from a registered node returns true, sets the entry's
\* lastSeen to now, raises its heartbeat counter by one, merges the reported
\* resources and activeJobs into it and leaves every other entry as it is.
HeartbeatUpdatesOnlyItsEntry ==
  [][\A n \in NodeIds :
       n \in DOMAIN nodes
       => \A m \in HeartbeatMetrics :
            HandleHeartbeat(n, m)
            => /\ Returned("handleHeartbeat", "true") \in emitted'
               /\ DOMAIN nodes' = DOMAIN nodes
               /\ order' = order
               /\ nodes'[n].lastSeen = now
               /\ nodes'[n].heartbeats = nodes[n].heartbeats + 1
               /\ nodes'[n].role = nodes[n].role
               /\ nodes'[n].status = nodes[n].status
               /\ \A k \in ResourceKeys :
                    nodes'[n].resources[k] =
                      IF m.given /\ m.resources[k] # NoValue
                      THEN m.resources[k] ELSE nodes[n].resources[k]
               /\ nodes'[n].activeJobs =
                    IF m.given /\ m.activeJobs # NoValue
                    THEN m.activeJobs ELSE nodes[n].activeJobs
               /\ \A o \in DOMAIN nodes \ {n} : nodes'[o] = nodes[o]]_vars

\* a registered peer's heartbeat that reported usage and activeJobs has just
\* been applied: the announced capacity is kept beside the reported usage
HeartbeatMerged ==
  /\ emitted = {Returned("handleHeartbeat", "true")}
  /\ now > 0
  /\ Cardinality(DOMAIN nodes) = 2
  /\ \E n \in DOMAIN nodes :
       /\ nodes[n].lastSeen = now
       /\ nodes[n].heartbeats = 2
       /\ nodes[n].resources["cpuCores"] = 4
       /\ nodes[n].resources["cpuUsage"] = 50
       /\ nodes[n].activeJobs = 1

\* C21: removal wins over a stale heartbeat. The health check leaves no stale
\* node in the registry; a heartbeat of a node the scan has just removed
\* returns false and does not put the node back; an id enters the registry
\* only by a registerNode that returns true.
RemovalWinsOverHeartbeat ==
  [][/\ Monitor => \A n \in StaleNodes : n \notin DOMAIN nodes'
     /\ \A n \in NodeIds :
          ([type |-> "node:departed", id |-> n] \in emitted /\ n \notin DOMAIN nodes)
          => \A m \in HeartbeatMetrics :
               HandleHeartbeat(n, m)
               => /\ n \notin DOMAIN nodes'
                  /\ Returned("handleHeartbeat", "false") \in emitted'
     /\ \A n \in NodeIds :
          (n \notin DOMAIN nodes /\ n \in DOMAIN nodes')
          => Returned("registerNode", "true") \in emitted']_vars

\* the health check has just removed n1, whose last heartbeat had been
\* applied, and kept n2, which was seen in time
ScanRemovedHeartbeatingNode ==
  /\ [type |-> "node:departed", id |-> "n1"] \in emitted
  /\ "n1" \notin DOMAIN nodes
  /\ "n2" \in DOMAIN nodes
  /\ nodes["n2"].lastSeen = now

\* ------------------------------------------------ load-balancing strategies
\* the strategies are called with every registry of up to three workers, in
\* every registration order; workers leave and join between the calls
CandidateIds == {"n1", "n2", "n3"}
Capabilities == {"gpu"}

CandidateEntries(jobCounts, capabilitySets) ==
  {[role |-> "worker", status |-> "active", lastSeen |-> 0, activeJobs |-> a,
    capabilities |-> c, resources |-> AnnouncedResources, metrics |-> NoMetrics,
    heartbeats |-> 1] : a \in jobCounts, c \in capabilitySets}

\* the registration orders of the ids in ids
Orders(ids) ==
  {o \in UNION {[1..k -> ids] : k \in {Cardinality(ids)}} :
     \A i, k \in DOMAIN o : i # k => o[i] # o[k]}

\* units with any blacklist, with or without a required capability
Units ==
  {[NewUnit(1) EXCEPT !.blacklistedNodes = b, !.requiredCapabilities = c] :
     b \in SUBSET CandidateIds, c \in SUBSET Capabilities}

BalancerInit(entries) ==
  /\ cfg \in {c \in Configs : c.enabled /\ c.role = "master"
                              /\ c.loadBalancing = "weighted" /\ c.recovery = "retry"}
  /\ now = 0
  /\ \E ids \in SUBSET CandidateIds :
       /\ nodes \in [ids -> entries]
       /\ order \in Orders(ids)
  /\ objects = <<>>
  /\ jobs = {}
  /\ metrics = [jobsProcessed |-> 0, workUnitsProcessed |-> 0,
                successRate |-> 0, totalProcessingTime |-> 0]
  /\ rrCounter = 0
  /\ listeners = [j \in JobIds |-> 0]
  /\ timers = [j \in JobIds |-> 0]
  /\ runs = <<>>
  /\ sends = {}
  /\ sent = {}
  /\ cancels = {}
  /\ submits = 0
  /\ assigns = 0
  /\ dups = 0
  /\ tasks = {}
  /\ outbox = {}
  /\ emitted = {}
  /\ model = [status |-> "pending", nodes |-> <<>>]
  /\ intervals = NoIntervals
  /\ pool = NewPool

BalancerNext(strategies, units) ==
  \/ \E strategy \in strategies, unit \in units, draw \in 1..Cardinality(CandidateIds) :
       CallBalancer(strategy, unit, draw)
  \/ \E n \in CandidateIds : Announce(n, "worker")
  \/ \E n \in CandidateIds : HandleNodeDeparture(n)

\* candidates that differ in the activeJobs they report, or report none
LoadInit == BalancerInit(CandidateEntries({NoValue} \cup 0..MaxActiveJobs, {{}}))

LoadSpec == LoadInit /\ [][BalancerNext(LoadBalancing, {NewUnit(1)})]_vars

\* C22: least-loaded selection returns a candidate whose activeJobs count
\* (a missing count is 0) is minimal over the candidates, and the first such
\* candidate in registry order.
LeastLoadedSelectsFirstMinimum ==
  [][LET cands == WorkerNodes(nodes, order)
         count(n) == IF nodes[n].activeJobs = NoValue THEN 0 ELSE nodes[n].activeJobs
     IN (/\ cands # <<>>
         /\ \E x \in CandidateIds \cup {Null} : emitted' = {Selected("least-loaded", x)})
        => \E i \in DOMAIN cands :
             /\ emitted' = {Selected("least-loaded", cands[i])}
             /\ \A k \in DOMAIN cands : count(cands[i]) <= count(cands[k])
             /\ \A k \in 1..(i - 1) : count(cands[k]) > count(cands[i])]_vars

\* least-loaded has just selected n2, which reports no count, before n3, which
\* reports 0, and n1, which reports 1
LeastLoadedTookMissingCountAsZero ==
  /\ emitted = {Selected("least-loaded", "n2")}
  /\ order = <<"n1", "n2", "n3">>
  /\ nodes["n1"].activeJobs = 1
  /\ nodes["n2"].activeJobs = NoValue
  /\ nodes["n3"].activeJobs = 0

\* position of candidate n in the list cands
PositionIn(cands, n) == CHOOSE i \in DOMAIN cands : cands[i] = n

\* C23: round-robin selection keeps one counter across calls. Every call
\* with a non-empty list selects a member of the list, also after the list
\* shrank or grew; a call that follows another call on the same list selects
\* the next candidate in order, the first after the last, so n consecutive
\* calls on n candidates select each candidate once.
RoundRobinCycles ==
  [][LET cands == WorkerNodes(nodes, order)
     IN (/\ cands # <<>>
         /\ \E x \in CandidateIds \cup {Null} : emitted' = {Selected("round-robin", x)})
        => \E i \in DOMAIN cands :
             /\ emitted' = {Selected("round-robin", cands[i])}
             /\ rrCounter' = i
             /\ \A y \in Range(cands) :
                  emitted = {Selected("round-robin", y)}
                  => i = (PositionIn(cands, y) % Len(cands)) + 1]_vars

\* the third of three calls in a row on three candidates selected the third
RoundRobinReachedLastCandidate ==
  /\ emitted = {Selected("round-robin", "n3")}
  /\ order = <<"n1", "n2", "n3">>
  /\ rrCounter = 3

\* candidates that differ in the capabilities they announce
CapabilityInit == BalancerInit(CandidateEntries({NoValue}, SUBSET Capabilities))

CapabilitySpec == CapabilityInit /\ [][BalancerNext({"auto"}, Units)]_vars

\* C24: adaptive selection never returns a node of the unit's blacklist; when
\* the unit requires capabilities and a candidate off the blacklist has them
\* all, the returned node has them all; it returns null exactly when the
\* candidate list is empty or every candidate is on the blacklist.
AdaptiveRespectsBlacklistAndCapabilities ==
  [][(\E x \in CandidateIds \cup {Null} : emitted' = {Selected("auto", x)})
     => \A unit \in Units, draw \in 1..Cardinality(CandidateIds) :
          CallBalancer("auto", unit, draw)
          => LET cands == Range(WorkerNodes(nodes, order))
                 allowed == cands \ unit.blacklistedNodes
                 capable == {n \in allowed :
                               unit.requiredCapabilities \subseteq nodes[n].capabilities}
             IN /\ (emitted' = {Selected("auto", Null)}) <=> (allowed = {})
                /\ allowed # {} => \E n \in allowed : emitted' = {Selected("auto", n)}
                /\ (unit.requiredCapabilities # {} /\ capable # {})
                   => \E n \in capable : emitted' = {Selected("auto", n)}]_vars

\* adaptive selection has just returned null although three workers are
\* candidates: the unit's blacklist names them all
AdaptiveFoundAllBlacklisted ==
  /\ emitted = {Selected("auto", Null)}
  /\ Len(WorkerNodes(nodes, order)) = 3

\* C25: each of the four strategies returns null for an empty candidate list
\* and, whenever it returns a node, a member of the candidate list.
BalancersReturnNullOrMember ==
  [][\A strategy \in LoadBalancing, x \in CandidateIds \cup {Null, Self} :
       emitted' = {Selected(strategy, x)}
       => LET cands == WorkerNodes(nodes, order)
          IN /\ cands = <<>> => x = Null
             /\ x # Null => x \in Range(cands)]_vars

\* the weighted strategy has just been called with no candidate at all
WeightedCalledWithoutCandidates ==
  /\ emitted = {Selected("weighted", Null)}
  /\ WorkerNodes(nodes, order) = <<>>

\* ========================================================= auto-scaling
\* clusterConfig.scaling.autoScaling as the environment can set it; the limits
\* keep 1 <= minNodes <= maxNodes and the steps are positive
AutoScalingConfigs ==
  [enabled : BOOLEAN, loadThresholdUp : {30}, loadThresholdDown : {20},
   queueThresholdUp : {1}, queueThresholdDown : {1},
   minNodes : {1, 3}, maxNodes : {3}, scaleUpStep : {1, 2}, scaleDownStep : {1, 2}]

\* the values _getCurrentCpuUsage returns, between 10 and 40
CpuDraws == {10, 39}

RECURSIVE SumOver(_, _)
SumOver(S, f) ==
  IF S = {} THEN 0
  ELSE LET x == CHOOSE y \in S : TRUE IN f[x] + SumOver(S \ {x}, f)

\* pending units of the jobs of the job table that are running or processing
PendingUnits(tbl, objs) ==
  LET activeJobs == {j \in tbl : objs[j].status \in {"running", "processing"}}
  IN SumOver(activeJobs,
             [j \in activeJobs |-> Len(GetWorkUnitsByStatus(objs[j], "pending"))])

\* _calculateOptimalNodeCount: ceil(pendingUnits / 5) within the limits
CalculateOptimalNodeCount(limits, tbl, objs) ==
  LET neededNodes == (PendingUnits(tbl, objs) + 4) \div 5
      capped == IF neededNodes < limits.maxNodes THEN neededNodes ELSE limits.maxNodes
  IN IF capped > limits.minNodes THEN capped ELSE limits.minNodes

\* scaleWorkerNodes({ targetCount }) on the master: the targetCount of its result
ScaleWorkerNodes(limits, tbl, objs, targetCount) ==
  IF targetCount # 0 THEN targetCount
  ELSE CalculateOptimalNodeCount(limits, tbl, objs)

ScalingRequest(action, targetCount) ==
  [type |-> "autoscale:" \o action, id |-> ToString(targetCount)]

\* the peers whose entry has metrics.resources
ReportingPeers(reg) ==
  {n \in DOMAIN reg : /\ reg[n].metrics.given
                      /\ \E k \in ResourceKeys : reg[n].metrics.resources[k] # NoValue}

\* the sum avgCpuLoad holds before it is divided by nodeCount
CpuLoadSum(reg, cpu) ==
  cpu + SumOver(ReportingPeers(reg),
                [n \in ReportingPeers(reg) |->
                   IF reg[n].metrics.resources.cpuUsage = NoValue THEN 0
                   ELSE reg[n].metrics.resources.cpuUsage])

\* avgQueueSize: the jobQueue lengths the peers report
QueueSize(reg) ==
  LET queued == {n \in DOMAIN reg : reg[n].metrics.given /\ reg[n].metrics.jobQueue # NoValue}
  IN SumOver(queued, [n \in queued |-> reg[n].metrics.jobQueue])

\* _evaluateAutoScaling: the scaling requests of one evaluation. The averages
\* are compared as sums, avg > t being sum > t * nodeCount
AutoScalingRequests(c, reg, tbl, objs, cpu) ==
  IF ~c.autoScaling.enabled \/ c.role # "master" THEN {}
  ELSE LET evaluation == c.autoScaling
           limits == c.autoScaling
           currentNodeCount == Cardinality(DOMAIN reg) + 1
           nodeCount == 1 + Cardinality(ReportingPeers(reg))
           cpuSum == CpuLoadSum(reg, cpu)
           avgQueueSize == QueueSize(reg)
           up == /\ \/ cpuSum > evaluation.loadThresholdUp * nodeCount
                    \/ avgQueueSize > evaluation.queueThresholdUp
                 /\ currentNodeCount < limits.maxNodes
           down == /\ cpuSum < evaluation.loadThresholdDown * nodeCount
                   /\ avgQueueSize < evaluation.queueThresholdDown
                   /\ currentNodeCount > limits.minNodes
           upTarget == IF currentNodeCount + limits.scaleUpStep < limits.maxNodes
                       THEN currentNodeCount + limits.scaleUpStep ELSE limits.maxNodes
           downTarget == IF currentNodeCount - limits.scaleDownStep > limits.minNodes
                         THEN currentNodeCount - limits.scaleDownStep ELSE limits.minNodes
       IN IF up THEN {ScalingRequest("up", ScaleWorkerNodes(limits, tbl, objs, upTarget))}
          ELSE IF down
               THEN {ScalingRequest("down", ScaleWorkerNodes(limits, tbl, objs, downTarget))}
               ELSE {}

\* one evaluation, as the health check of line 929 starts it
EvaluateAutoScaling(cpu) ==
  /\ emitted' = AutoScalingRequests(cfg, nodes, jobs, objects, cpu)
                  \cup {Returned("_evaluateAutoScaling", "undefined")}
  /\ UNCHANGED <<cfg, now, nodes, order, objects, jobs, metrics, rrCounter, listeners,
                 timers, runs, sends, sent, cancels, submits, assigns, dups, tasks,
                 outbox, model, intervals, pool>>

ScaleInit ==
  /\ \E c \in Configs, a \in AutoScalingConfigs :
       /\ c.enabled /\ c.loadBalancing = "weighted" /\ c.recovery = "retry"
       /\ c.maxConcurrentJobs = 2
       /\ cfg = [enabled |-> c.enabled, role |-> c.role, recovery |-> c.recovery,
                 loadBalancing |-> c.loadBalancing,
                 maxConcurrentJobs |-> c.maxConcurrentJobs, autoScaling |-> a]
  /\ now = 0
  /\ nodes = <<>>
  /\ order = <<>>
  /\ objects = <<>>
  /\ jobs = {}
  /\ metrics = [jobsProcessed |-> 0, workUnitsProcessed |-> 0,
                successRate |-> 0, totalProcessingTime |-> 0]
  /\ rrCounter = 0
  /\ listeners = [j \in JobIds |-> 0]
  /\ timers = [j \in JobIds |-> 0]
  /\ runs = <<>>
  /\ sends = {}
  /\ sent = {}
  /\ cancels = {}
  /\ submits = 0
  /\ assigns = 0
  /\ dups = 0
  /\ tasks = {}
  /\ outbox = {}
  /\ emitted = {}
  /\ model = [status |-> "pending", nodes |-> <<>>]
  /\ intervals = NoIntervals
  /\ pool = NewPool

ScaleNext ==
  \/ \E r \in Registrations : Announce(r[1], r[2])
  \/ \E n \in NodeIds, m \in HeartbeatMetrics : HandleHeartbeat(n, m)
  \/ \E j \in JobIds : DistributeJob(j)
  \/ \E s \in sends, ok \in BOOLEAN : SendSettle(s, ok)
  \/ \E cpu \in CpuDraws : EvaluateAutoScaling(cpu)

ScaleSpec == ScaleInit /\ [][ScaleNext]_vars

\* C26: an evaluation on the master requests a scale-up exactly when (the
\* average CPU load over the local node and the reporting peers is above the
\* up threshold, or the pending units of the active jobs are more than the up
\* queue threshold) and the node count is below the maximum.
ScaleUpIffLoadOrQueueHigh ==
  [][\A cpu \in CpuDraws :
       (cfg.role = "master" /\ cfg.autoScaling.enabled /\ EvaluateAutoScaling(cpu))
       => ((\E t \in 0..cfg.autoScaling.maxNodes : ScalingRequest("up", t) \in emitted')
           <=> /\ \/ CpuLoadSum(nodes, cpu)
                       > cfg.autoScaling.loadThresholdUp * (1 + Cardinality(ReportingPeers(nodes)))
                  \/ PendingUnits(jobs, objects) > cfg.autoScaling.queueThresholdUp
               /\ Cardinality(DOMAIN nodes) + 1 < cfg.autoScaling.maxNodes)]_vars

\* the target counts of the requests an evaluation has just made
RequestedTargets(action) ==
  {t \in 0..(cfg.autoScaling.maxNodes + Cardinality(NodeIds) + 1) :
     ScalingRequest(action, t) \in emitted'}

\* C27: every scaling request is made by a master and its target is within
\* [minNodes, maxNodes]; a scale-up targets min(maxNodes, current + scaleUpStep);
\* a scale-down is requested only when the load and the pending units are
\* below their down thresholds and the node count is above minNodes, and
\* targets max(minNodes, current - scaleDownStep); no evaluation requests both.
ScalingRequestsWithinLimits ==
  [][\A cpu \in CpuDraws :
       EvaluateAutoScaling(cpu)
       => LET limits == cfg.autoScaling
              current == Cardinality(DOMAIN nodes) + 1
              ups == RequestedTargets("up")
              downs == RequestedTargets("down")
          IN /\ ups \cup downs # {} => cfg.role = "master"
             /\ \A t \in ups \cup downs : limits.minNodes <= t /\ t <= limits.maxNodes
             /\ \A t \in ups :
                  t = IF current + limits.scaleUpStep < limits.maxNodes
                      THEN current + limits.scaleUpStep ELSE limits.maxNodes
             /\ \A t \in downs :
                  /\ CpuLoadSum(nodes, cpu)
                       < limits.loadThresholdDown * (1 + Cardinality(ReportingPeers(nodes)))
                  /\ PendingUnits(jobs, objects) < limits.queueThresholdDown
                  /\ current > limits.minNodes
                  /\ t = IF current - limits.scaleDownStep > limits.minNodes
                         THEN current - limits.scaleDownStep ELSE limits.minNodes
             /\ ups = {} \/ downs = {}]_vars

\* the units the local runs are executing (started and not yet settled)
ExecutingLocally ==
  SumOver(DOMAIN runs, [i \in DOMAIN runs |-> Cardinality(runs[i].active)])

\* C28: at every moment at most maxConcurrentJobs units are being executed on
\* the local node, also when local processing of a job is triggered again
\* while it is running.
LocalExecutionWithinBound == ExecutingLocally <= cfg.maxConcurrentJobs

\* ===================================================== inbound messages
\* what a message leaves behind besides the state: a line of the log, or a
\* promise that rejected with nobody waiting for it
Logged(level, messageType) == [type |-> "log:" \o level, id |-> messageType]
UnhandledRejection(messageType) == [type |-> "unhandledRejection", id |-> messageType]

UnknownTypes == {"node:ping"}

\* the default branch of the switch (lines 812-816)
UnknownMessage(messageType) ==
  /\ cfg.enabled
  /\ messageType \in UnknownTypes
  /\ emitted' = {Logged("warn", messageType)}
  /\ UNCHANGED <<cfg, now, nodes, order, objects, jobs, metrics, rrCounter, listeners,
                 timers, runs, sends, sent, cancels, submits, assigns, dups, tasks,
                 outbox, model, intervals, pool>>

\* node:announce without node: registerNode(undefined) throws at line 385
\* and the catch of line 818 logs the error
AnnounceWithoutNode ==
  /\ cfg.enabled
  /\ emitted' = {Logged("error", "node:announce")}
  /\ UNCHANGED <<cfg, now, nodes, order, objects, jobs, metrics, rrCounter, listeners,
                 timers, runs, sends, sent, cancels, submits, assigns, dups, tasks,
                 outbox, model, intervals, pool>>

\* work:assign without units: _handleWorkAssignment is async and is called
\* without await (line 801), so the TypeError of units.length at line 1263
\* rejects a promise the try of line 780 does not see
AssignWithoutUnits ==
  /\ cfg.enabled
  /\ emitted' = {UnhandledRejection("work:assign")}
  /\ UNCHANGED <<cfg, now, nodes, order, objects, jobs, metrics, rrCounter, listeners,
                 timers, runs, sends, sent, cancels, submits, assigns, dups, tasks,
                 outbox, model, intervals, pool>>

MessageInit ==
  Init /\ cfg.enabled /\ cfg.loadBalancing = "weighted" /\ cfg.recovery = "retry"

\* the callback of subscribeToMessages, one branch of its switch per disjunct
MessageNext ==
  \/ \E n \in NodeIds, m \in HeartbeatMetrics : HandleHeartbeat(n, m)
  \/ \E r \in Registrations : Announce(r[1], r[2])
  \/ AnnounceWithoutNode
  \/ \E n \in NodeIds : HandleNodeDeparture(n)
  \/ \E j \in JobIds, ids \in (SUBSET UnitIds) \ {{}}, d \in BOOLEAN :
       HandleWorkAssignment(j, ids, "n1", d)
  \/ AssignWithoutUnits
  \/ \E messageType \in UnknownTypes : UnknownMessage(messageType)

MessageSpec == MessageInit /\ [][MessageNext]_vars

\* C29: no inbound message, of unknown type or malformed, ends in an uncaught
\* error or an unhandled rejection, and a message of unknown type leaves the
\* registry, the job table and the work units unchanged.
MessagesNeverEscapeTheHandler ==
  [][/\ \A messageType \in UnknownTypes \cup {"work:assign", "node:announce"} :
          UnhandledRejection(messageType) \notin emitted'
     /\ (\E messageType \in UnknownTypes : emitted' = {Logged("warn", messageType)})
        => /\ nodes' = nodes
           /\ order' = order
           /\ jobs' = jobs
           /\ objects' = objects]_vars

\* ======================================================== cluster state
ClusterStateEntry(key, value) == [type |-> "clusterState:" \o key, id |-> value]

\* the keys jobStats is created with (lines 305-311), besides total
InitialisedStats == {"running", "completed", "failed", "pending"}

JobCount(tbl, objs, status) == Cardinality({j \in tbl : objs[j].status = status})

\* jobStats[status] after the loop of lines 313-315: ++ on a key that was not
\* created gives NaN
JobStat(tbl, objs, status) ==
  IF status \in InitialisedStats THEN ToString(JobCount(tbl, objs, status))
  ELSE IF JobCount(tbl, objs, status) = 0 THEN "undefined" ELSE "NaN"

\* getClusterState(): clusterSize and jobs of the returned object
ClusterState(reg, tbl, objs) ==
  {ClusterStateEntry("clusterSize", ToString(Cardinality(DOMAIN reg) + 1)),
   ClusterStateEntry("jobs.total", ToString(Cardinality(tbl)))}
  \cup {ClusterStateEntry("jobs." \o status, JobStat(tbl, objs, status)) :
          status \in JobStatuses}

GetClusterState ==
  /\ emitted' = ClusterState(nodes, jobs, objects)
  /\ UNCHANGED <<cfg, now, nodes, order, objects, jobs, metrics, rrCounter, listeners,
                 timers, runs, sends, sent, cancels, submits, assigns, dups, tasks,
                 outbox, model, intervals, pool>>

\* a master whose jobs complete, fail or are cancelled, queried in between
StateNext ==
  \/ Announce("n1", "worker")
  \/ \E j \in JobIds : DistributeJob(j)
  \/ \E s \in sends, ok \in BOOLEAN : SendSettle(s, ok)
  \/ \E n \in NodeIds, j \in JobIds, id \in UnitIds, o \in Payloads \cup {"error"} :
       WorkResult(n, j, id, o, FALSE)
  \/ \E j \in JobIds : CancelJob(j)
  \/ \E j \in JobIds, ok \in BOOLEAN : CancelSettle(j, ok)
  \/ GetClusterState

StateSpec == RetryInit /\ [][StateNext]_vars

\* C30: getClusterState changes neither the registry nor the job table, reports
\* clusterSize = registry size + 1, and counts every job of the table under its
\* own status, so that the counts are numbers and add up to the total.
ClusterStateCountsEveryJob ==
  [][(\E t \in 0..Cardinality(JobIds) :
        ClusterStateEntry("jobs.total", ToString(t)) \in emitted')
     => /\ nodes' = nodes /\ order' = order /\ jobs' = jobs /\ objects' = objects
        /\ ClusterStateEntry("clusterSize", ToString(Cardinality(DOMAIN nodes) + 1))
             \in emitted'
        /\ ClusterStateEntry("jobs.total", ToString(Cardinality(jobs))) \in emitted'
        /\ \A status \in JobStatuses :
             /\ ClusterStateEntry("jobs." \o status, "NaN") \notin emitted'
             /\ JobCount(jobs, objects, status) > 0
                => ClusterStateEntry("jobs." \o status,
                                     ToString(JobCount(jobs, objects, status)))
                     \in emitted']_vars

\* ============================================== distribution and recovery
\* a master and two peers: jobs are submitted, sends settle and a peer
\* departs with units on it
RecoveryInit == MasterInit

RecoveryNext ==
  \/ \E r \in Registrations : Announce(r[1], r[2])
  \/ HandleNodeDeparture("n1")
  \/ \E j \in JobIds : DistributeJob(j)
  \/ \E s \in sends, ok \in BOOLEAN : SendSettle(s, ok)

RecoverySpec == RecoveryInit /\ [][RecoveryNext]_vars

\* C31: in a distribution pass every unit the scheduler selected a node for is
\* marked assigned to that node and is in exactly one work:assign message, the
\* one addressed to that node; one message goes to each destination and none
\* is empty.
OneAssignMessagePerDestination ==
  [][LET newSends == sends' \ sends
     IN /\ \A s \in newSends :
             /\ s.units # {}
             /\ \A id \in s.units :
                  /\ HasUnit(objects'[s.job], id)
                  /\ Unit(objects'[s.job], id).status = "assigned"
                  /\ Unit(objects'[s.job], id).assignedNode = s.node
             /\ \A t \in newSends : (t.node = s.node /\ t.job = s.job) => t = s
        /\ \A j \in jobs' : \A i \in DOMAIN objects'[j].workUnits :
             LET u == objects'[j].workUnits[i]
                 before == IF j \in DOMAIN objects /\ HasUnit(objects[j], u.id)
                           THEN Unit(objects[j], u.id) ELSE NewUnit(u.id)
             IN (u.status = "assigned" /\ u # before)
                => /\ \E s \in newSends : s.job = j /\ s.node = u.assignedNode
                                          /\ u.id \in s.units
                   /\ \A s, t \in newSends :
                        (s.job = j /\ t.job = j /\ u.id \in s.units /\ u.id \in t.units)
                        => s = t]_vars

\* with two workers registered, a pass has just put both units of the job
\* into one message for n2
BothUnitsBatchedForOneNode ==
  /\ DOMAIN nodes = {"n1", "n2"}
  /\ \E s \in sends : s.node = "n2" /\ s.units = {1, 2}

\* a master and two peers; the job is submitted once, results come back and
\* peer n1 fails for the first time
FirstFailure == \A j \in jobs : \A u \in UnitsOf(j) : u.attempts = 0

FailureNext ==
  \/ \E r \in Registrations : Announce(r[1], r[2])
  \/ FirstFailure /\ HandleNodeDeparture("n1")
  \/ \E j \in JobIds : submits = 0 /\ DistributeJob(j)
  \/ \E s \in sends, ok \in BOOLEAN : SendSettle(s, ok)
  \/ \E n \in NodeIds, j \in JobIds, id \in UnitIds, ok \in BOOLEAN :
       WorkResult(n, j, id, IF ok THEN ResultOf(n) ELSE "error", FALSE)

FailureSpec == MasterInit /\ [][FailureNext]_vars

\* the step is the recovery for node n: n leaves the registry
Departs(n) == n \in DOMAIN nodes /\ n \notin DOMAIN nodes'

UnitsCoverSubjectAfterRecreate ==
  \A j \in jobs :
     cfg.recovery = "recreate" => {u.id : u \in UnitsOf(j)} = UnitIds

\* the operations that touch a unit: first assignment, local execution,
\* results, the revert after a failed send, cancellation and recovery
AttemptsNext ==
  \/ \E r \in Registrations : Announce(r[1], r[2])
  \/ FirstFailure /\ HandleNodeDeparture("n1")
  \/ \E j \in JobIds : submits = 0 /\ DistributeJob(j)
  \/ \E s \in sends, ok \in BOOLEAN : SendSettle(s, ok)
  \/ \E n \in NodeIds, j \in JobIds, id \in UnitIds :
       WorkResult(n, j, id, ResultOf(n), FALSE)
  \/ \E i \in 1..MaxSubmits, id \in UnitIds, o \in {ResultOf(Self), "error"} :
       LocalFinish(i, id, o)
  \/ \E j \in JobIds : CancelJob(j)
  \/ \E j \in JobIds, ok \in BOOLEAN : CancelSettle(j, ok)

AttemptsSpec == MasterInit /\ [][AttemptsNext]_vars

\* C34: a unit's attempts counter never decreases, and it changes only in the
\* recovery for a failed node, by one, for a unit that was in flight on it.
AttemptsChangeOnlyInRecovery ==
  [][\A j \in jobs : \A i \in DOMAIN objects[j].workUnits :
       LET u == objects[j].workUnits[i]
       IN (j \in DOMAIN objects' /\ HasUnit(objects'[j], u.id))
          => LET v == Unit(objects'[j], u.id)
             IN /\ v.attempts >= u.attempts
                /\ v.attempts # u.attempts
                   => /\ v.attempts = u.attempts + 1
                      /\ u.status \in UnitInFlight
                      /\ u.assignedNode \in NodeIds
                      /\ Departs(u.assignedNode)]_vars

\* a unit recovered once was assigned again and its result has arrived: the
\* counter still reads 1
RecoveredUnitCompletedWithOneAttempt ==
  \E j \in jobs : \E u \in UnitsOf(j) : u.attempts = 1 /\ u.status = "completed"

\* ============================================================ resubmission
\* a master with its workers: submissions and resubmissions of the job,
\* between sends, results and the departure of n1
ResubmitNext ==
  \/ \E r \in Registrations : Announce(r[1], r[2])
  \/ \E j \in JobIds : DistributeJob(j)
  \/ \E s \in sends, ok \in BOOLEAN : SendSettle(s, ok)
  \/ \E i \in 1..MaxSubmits, id \in UnitIds : LocalFinish(i, id, ResultOf(Self))
  \/ \E n \in NodeIds, j \in JobIds, id \in UnitIds :
       WorkResult(n, j, id, ResultOf(n), FALSE)
  \/ FirstFailure /\ HandleNodeDeparture("n1")

ResubmitSpec == MasterInit /\ [][ResubmitNext]_vars

\* the identifiers of the job's units, in list order
UnitIdList(job) == [i \in DOMAIN job.workUnits |-> job.workUnits[i].id]

AssignedWorkResult(n, j, id, outcome) ==
  /\ cfg.enabled
  /\ [node |-> n, job |-> j, unit |-> id] \in sent
  /\ sent' = sent \ {[node |-> n, job |-> j, unit |-> id]}
  /\ LET m == WorkResultMessage(j, AssignedUnitInMessage(id, n), outcome)
     IN Commit(ProcessWorkUnitResult(St, m.job, m.unitId, m.outcome))
  /\ UNCHANGED <<cfg, now, nodes, order, cancels, submits, assigns, dups, tasks, outbox, model, intervals, pool>>

RoundTripNext ==
  \/ \E r \in Registrations : Announce(r[1], r[2])
  \/ \E j \in JobIds : DistributeJob(j)
  \/ \E s \in sends, ok \in BOOLEAN : SendSettle(s, ok)
  \/ \E n \in NodeIds, j \in JobIds, id \in UnitIds, ok \in BOOLEAN :
       AssignedWorkResult(n, j, id, IF ok THEN ResultOf(n) ELSE "error")

RoundTripSpec == MasterInit /\ [][RoundTripNext]_vars

\* C36: when the work:result for a unit sent in a work:assign message is
\* processed, the job of the message is the one looked up, exactly that unit
\* becomes completed or failed, and every other unit stays as it was.
RoundTripMarksTheAssignedUnit ==
  [][\A t \in sent \ sent' :
       t.job \in jobs
       => /\ Returned("processWorkUnitResult", "true") \in emitted'
          /\ \A i \in DOMAIN objects[t.job].workUnits :
               LET u == objects[t.job].workUnits[i]
                   v == objects'[t.job].workUnits[i]
               IN IF u.id = t.unit
                  THEN v.status \in {"completed", "failed"}
                  ELSE v = u]_vars

\* ================================================= answers to work:assign
WorkerInit == Init /\ cfg.enabled /\ cfg.role = "worker"

\* a worker: peers announce themselves, jobs are submitted to it and run
\* locally, work:assign messages arrive and their units are processed
AssignmentNext ==
  \/ \E r \in Registrations : Announce(r[1], r[2])
  \/ \E j \in JobIds : DistributeJob(j)
  \/ \E i \in 1..MaxSubmits, id \in UnitIds : LocalFinish(i, id, ResultOf(Self))
  \/ \E j \in JobIds, ids \in (SUBSET UnitIds) \ {{}}, d \in BOOLEAN :
       HandleWorkAssignment(j, ids, "n1", d)
  \/ \E t \in tasks, o \in {ResultOf(Self), "error"}, a \in BOOLEAN, b \in BOOLEAN :
       WorkerFinish(t, o, a, b)

AssignmentSpec == WorkerInit /\ [][AssignmentNext]_vars

\* C37: when the processing of a received unit ends, exactly one work:result
\* message for it has gone to the sender of the work:assign message.
OneResultPerReceivedUnit ==
  [][\A t \in tasks \ tasks' :
       Cardinality({m \in outbox' \ outbox : m.task = t /\ m.to = t.sender}) = 1]_vars

\* ============================================== initialize and shutdown
MaxInitializes == 2

\* the awaited calls of initialize() that can raise, in call order, and the
\* ones of shutdown()
InitializeRaises == {"discoveryAdapter.initialize", "messageAdapter.initialize",
                     "_announceNode", "_discoverNodes", "nothing"}
ShutdownRaises == {"_announceNodeDeparture", "discoveryAdapter.shutdown", "nothing"}

\* what discoveryAdapter.discoverNodes() resolves to
Discovered == {<<>>, <<"n1">>}

\* _startHeartbeat and _startMonitoring: each setInterval returns a new
\* handle, which replaces the one kept in the field
StartIntervals(iv) ==
  [heartbeatInterval |-> iv.created + 1,
   monitoringInterval |-> iv.created + 2,
   running |-> iv.running \cup {iv.created + 1, iv.created + 2},
   created |-> iv.created + 2]

\* _stopHeartbeat and _stopMonitoring: clearInterval of the handles kept
StopIntervals(iv) ==
  [iv EXCEPT !.running = @ \ {iv.heartbeatInterval, iv.monitoringInterval},
             !.heartbeatInterval = NoHandle,
             !.monitoringInterval = NoHandle]

\* initialize(); raises names the awaited call that throws
Initialize(raises, found) ==
  /\ intervals.created < 2 * MaxInitializes
  /\ \A i \in DOMAIN found :
       found[i] \in DOMAIN nodes => nodes[found[i]].heartbeats < MaxHeartbeats
  /\ IF ~cfg.enabled
     THEN /\ emitted' = {Returned("initialize", "true")}
          /\ UNCHANGED <<nodes, order, intervals>>
     ELSE IF raises \in {"discoveryAdapter.initialize", "messageAdapter.initialize"}
     THEN /\ emitted' = {[type |-> "error", id |-> raises],
                         Returned("initialize", "false")}
          /\ UNCHANGED <<nodes, order, intervals>>
     ELSE /\ intervals' = StartIntervals(intervals)
          /\ IF raises \in {"_announceNode", "_discoverNodes"}
             THEN /\ emitted' = {[type |-> "error", id |-> raises],
                                 Returned("initialize", "false")}
                  /\ UNCHANGED <<nodes, order>>
             ELSE LET r == IF found = <<>>
                           THEN [nodes |-> nodes, order |-> order]
                           ELSE RegisterInRegistry(nodes, order, found[1], "worker", now)
                  IN /\ nodes' = r.nodes
                     /\ order' = r.order
                     /\ emitted' = {[type |-> "initialized", id |-> Self],
                                    Returned("initialize", "true")}
  /\ UNCHANGED <<cfg, now, objects, jobs, metrics, rrCounter, listeners, timers,
                 runs, sends, sent, cancels, submits, assigns, dups, tasks, outbox,
                 model, pool>>

\* shutdown() of a controller that holds no running or pending job (the loop
\* of lines 344-351 finds nothing to cancel)
Shutdown(raises) ==
  /\ \A j \in jobs : objects[j].status \notin {"running", "pending"}
  /\ IF ~cfg.enabled
     THEN /\ emitted' = {Returned("shutdown", "true")}
          /\ UNCHANGED intervals
     ELSE /\ intervals' = StopIntervals(intervals)
          /\ emitted' = {Returned("shutdown", IF raises = "nothing" THEN "true" ELSE "false")}
  /\ UNCHANGED <<cfg, now, nodes, order, objects, jobs, metrics, rrCounter, listeners,
                 timers, runs, sends, sent, cancels, submits, assigns, dups, tasks,
                 outbox, model, pool>>

LifecycleNext ==
  \/ \E raises \in InitializeRaises, found \in Discovered : Initialize(raises, found)
  \/ \E raises \in ShutdownRaises : Shutdown(raises)
  \/ \E r \in Registrations : Announce(r[1], r[2])

LifecycleSpec == Init /\ [][LifecycleNext]_vars

\* C38: when initialize() has returned false no heartbeat timer and no
\* monitoring timer is running, and when shutdown() has returned true both
\* timers are stopped.
NoTimerAfterFailedInitializeOrShutdown ==
  (\/ Returned("initialize", "false") \in emitted
   \/ Returned("shutdown", "true") \in emitted) => intervals.running = {}

\* ====================================================== registry refresh
\* a master selecting by least load: peers announce themselves, report by
\* heartbeat and are registered again (repeated node:announce, rediscovery)
RefreshNext ==
  \/ \E r \in Registrations : Announce(r[1], r[2])
  \/ \E n \in NodeIds, m \in HeartbeatMetrics : HandleHeartbeat(n, m)
  \/ \E r \in Registrations :
       r[1] \in DOMAIN nodes /\ RegisterNodeUpTo(r[1], r[2], MaxHeartbeats + 1)

RefreshSpec == RegistryInit /\ [][RefreshNext]_vars

\* C39: registerNode for a node that is already registered keeps the
\* activeJobs count and the metrics its last heartbeat reported and raises its
\* heartbeat counter by one.
RefreshKeepsReportedLoad ==
  [][\A n \in DOMAIN nodes :
       [type |-> "node:registered", id |-> n] \in emitted'
       => /\ n \in DOMAIN nodes'
          /\ nodes'[n].heartbeats = nodes[n].heartbeats + 1
          /\ nodes'[n].activeJobs = nodes[n].activeJobs
          /\ nodes'[n].metrics = nodes[n].metrics]_vars

\* ======================================================= WorkerThreadPool
\* runNext(): the first idle worker takes the first queued task
RunNext(p) ==
  IF Len(p.queue) = 0 \/ Len(p.idle) = 0 THEN p
  ELSE LET worker == Head(p.idle)
           task == Head(p.queue)
       IN [p EXCEPT !.idle = Tail(@), !.queue = Tail(@),
                    !.currentTask[worker] = task,
                    !.busy = @ \cup {worker}]

\* the tasks handed to run() so far; they are numbered in call order
Submitted(p) == {t \in TaskIds : p.promise[t] # "none"}

\* run(taskData): the task is queued with its promise and runNext is called
Run(t) ==
  /\ t \in TaskIds \ Submitted(pool)
  /\ \A e \in TaskIds : e < t => e \in Submitted(pool)
  /\ pool' = RunNext([pool EXCEPT !.queue = Append(@, t), !.promise[t] = "pending"])
  /\ emitted' = {}
  /\ UNCHANGED <<cfg, now, nodes, order, objects, jobs, metrics, rrCounter, listeners,
                 timers, runs, sends, sent, cancels, submits, assigns, dups, tasks,
                 outbox, model, intervals>>

\* worker.on('message'): the promise of the worker's task is resolved, the
\* worker joins the idle list and runNext is called
WorkerMessage(w) ==
  /\ w \in pool.busy
  /\ pool' = RunNext([pool EXCEPT !.promise[pool.currentTask[w]] = "resolved",
                                  !.idle = Append(@, w),
                                  !.busy = @ \ {w}])
  /\ emitted' = {}
  /\ UNCHANGED <<cfg, now, nodes, order, objects, jobs, metrics, rrCounter, listeners,
                 timers, runs, sends, sent, cancels, submits, assigns, dups, tasks,
                 outbox, model, intervals>>

\* worker.on('error'): the error is written to the console; the thread of
\* the worker has ended
WorkerError(w) ==
  /\ w \in pool.busy
  /\ pool' = [pool EXCEPT !.busy = @ \ {w}, !.exited = @ \cup {w}]
  /\ emitted' = {}
  /\ UNCHANGED <<cfg, now, nodes, order, objects, jobs, metrics, rrCounter, listeners,
                 timers, runs, sends, sent, cancels, submits, assigns, dups, tasks,
                 outbox, model, intervals>>

PoolNext ==
  \/ \E t \in TaskIds : Run(t)
  \/ \E w \in ThreadIds : WorkerMessage(w)
  \/ \E w \in ThreadIds : WorkerError(w)

\* the pool is an object of its own: the controller plays no part in it and
\* is taken standalone
PoolInit == Init /\ ~cfg.enabled /\ cfg.maxConcurrentJobs = 1

PoolSpec == PoolInit /\ [][PoolNext]_vars

\* the task of worker w has ended in this step
TaskEnds(w) ==
  /\ w \in pool.busy
  /\ w \notin pool'.busy \/ pool'.currentTask[w] # pool.currentTask[w]

\* C40: tasks are dispatched in the order of their run() calls, to an idle
\* worker; a worker holds one task at a time; and when a worker's task ends,
\* by a message or by an error, the task's promise is settled and the worker
\* is idle again or has taken the next task.
PoolSettlesEveryTask ==
  [][/\ \A w \in ThreadIds :
          pool'.currentTask[w] # pool.currentTask[w]
          => /\ w \in Range(pool.idle) \/ TaskEnds(w)
             /\ \A e \in Submitted(pool') :
                  e < pool'.currentTask[w] => e \notin Range(pool'.queue)
     /\ \A w \in pool'.busy : w \notin Range(pool'.idle)
     /\ \A w \in ThreadIds :
          TaskEnds(w)
          => /\ pool'.promise[pool.currentTask[w]] \in {"resolved", "rejected"}
             /\ w \in Range(pool'.idle) \/ w \in pool'.busy]_vars

====
